---------------------------- MODULE Spec2Model ----------------------------
(*************************************************************************)
(* Model of the agent orchestration engine of dxiaoqi/ohmytoy:           *)
(*   - the approval policy engine (safety/approval.ts),                  *)
(*   - the tool registry and its invocation pipeline (tools/registry.ts),*)
(*   - the agent turn loop that dispatches tool calls (agent/agent.ts).  *)
(*************************************************************************)
EXTENDS Integers, Sequences, FiniteSets, TLC

VARIABLES
  \* ---- approval engine exercised on its own (SpecApproval) ----
  apolicy,      \* ApprovalManager.approvalPolicy
  acwd,         \* ApprovalManager.cwd
  actx,         \* the ApprovalContext handed to checkApproval
  adecision,    \* the decision checkApproval returned ("none" before the call)
  \* ---- LLM client exercised on its own (SpecClient) ----
  cscript,      \* what the API does on each attempt of the call
  cstream,      \* the stream argument of chatCompletion
  cout,         \* Null, or the events the call yielded and the waits it made
  \* ---- tool registry ----
  mcpTools,              \* ToolRegistry.mcpTools: name -> tool class
  \* ---- MCP manager (SpecMCP) ----
  phase,                 \* position of Session.initialize / MCPManager.shutdown
  clients,               \* MCPManager.clients: the names in the map
  mcpClient,             \* the MCPClient objects by server name
  connectionTasks,       \* the connection tasks of initialize, by server name
  initialized,           \* MCPManager.initialized
  healthCheckInterval,   \* TRUE iff MCPManager.healthCheckInterval is set
  healthStatuses,        \* MCPManager.healthStatuses: name -> status
  sweeps,                \* the checkHealth calls, each at its position
  connects,              \* the MCPClient.connect calls
  \* ---- one session and its agent run (Spec, SpecLoop, SpecSubagent) ----
  approvalPolicy,        \* session.approvalManager.approvalPolicy
  confirmationCallback,  \* TRUE iff a confirmation callback is registered
  allowedTools,          \* config.allowedTools: Null or Some(set of names)
  maxTurns,              \* config.maxTurns
  contextWindow,         \* config.model.contextWindow
  tools,                 \* ToolRegistry.tools: name -> tool class
  pc,                    \* position of Agent.run
  turnNum,               \* loop variable of agenticLoop
  messages,              \* ContextManager.messages
  toolCalls,             \* the tool calls of the current turn
  tci,                   \* index of the next tool call to dispatch
  toolCallResults,       \* the ToolResultMessages of the current turn
  inv,                   \* what the last ToolRegistry.invoke did
  agentEvents,           \* the AgentEvents Agent.run has yielded
  turnUsage,             \* the usage reported by the stream of the current turn
  latestUsage,           \* ContextManager.latestUsage
  totalUsage,            \* ContextManager.totalUsage
  history,               \* LoopDetector.history
  requests,              \* the requests made to the compactor and to the LLM
  subagent,              \* SubagentTool.execute consuming the run, if any
  \* ---- the interactive session (SpecInteractive) ----
  turnCount,             \* session.turnCount
  configApproval,        \* config.approval
  sessionFile,           \* the session file /save wrote, or Null
  \* ---- hooks (SpecHooks) ----
  hooks,                 \* HookSystem.hooks, each with what its command does
  \* ---- loop detector (SpecDetector) ----
  loopDetection,         \* the last checkForLoop: the history checked and the result
  \* ---- tool discovery (SpecDiscovery) ----
  toolDir,               \* the files of <cwd>/.ai-agent/tools: file -> content
  discoveredTools,       \* ToolRegistry.discoveredTools: the names in the map
  discoveredFiles        \* ToolDiscoveryManager.discoveredFiles

avars == <<apolicy, acwd, actx, adecision>>

cvars == <<cscript, cstream, cout>>

mvars == <<mcpTools, phase, clients, mcpClient, connectionTasks, initialized,
           healthCheckInterval, healthStatuses, sweeps, connects>>

\* The session without the locals of SubagentTool.execute.
svars_session == <<approvalPolicy, confirmationCallback, allowedTools, maxTurns,
                   contextWindow, tools, pc, turnNum, messages, toolCalls, tci,
                   toolCallResults, inv, agentEvents, turnUsage, latestUsage, totalUsage,
                   history, requests>>

svars == <<svars_session, subagent>>

dvars == <<toolDir, discoveredTools, discoveredFiles>>

xvars == <<turnCount, configApproval, sessionFile, hooks, loopDetection, dvars>>

vars == <<avars, cvars, mvars, svars, xvars>>

\* new MCPManager(config) and an empty registry of MCP tools.
McpIdle ==
  /\ mcpTools = << >>
  /\ phase = "new"
  /\ clients = {}
  /\ mcpClient = << >>
  /\ connectionTasks = << >>
  /\ initialized = FALSE
  /\ healthCheckInterval = FALSE
  /\ healthStatuses = << >>
  /\ sweeps = << >>
  /\ connects = << >>


(*************************************************************************)
(* Regular expressions, as far as DANGEROUS_PATTERNS and SAFE_PATTERNS   *)
(* use them.  Ends(r, s, i) is the set of positions at which a match of  *)
(* r that starts at position i of s can end (RegExp.prototype.test       *)
(* succeeds iff some start position has a non-empty set).                *)
(*************************************************************************)
Lit(s) == [t |-> "lit", s |-> s]
Cls(c) == [t |-> "cls", c |-> c]
Dot == [t |-> "dot"]
Cat(rs) == [t |-> "cat", rs |-> rs]
Alt(rs) == [t |-> "alt", rs |-> rs]
Star(r) == [t |-> "star", r |-> r]
Plus(r) == Cat(<<r, Star(r)>>)
Opt(r) == Alt(<<r, Cat(<<>>)>>)
Bol == [t |-> "bol"]
Eol == [t |-> "eol"]
\* \s
Ws == Cls({" ", "\t", "\n", "\r", "\f"})

RECURSIVE Ends(_, _, _)
RECURSIVE StarEnds(_, _, _)

Ends(r, s, i) ==
  CASE r.t = "lit" ->
         IF i + Len(r.s) - 1 <= Len(s) /\ SubSeq(s, i, i + Len(r.s) - 1) = r.s
           THEN {i + Len(r.s)} ELSE {}
    [] r.t = "cls" ->
         IF i <= Len(s) /\ SubSeq(s, i, i) \in r.c THEN {i + 1} ELSE {}
    [] r.t = "dot" ->
         IF i <= Len(s) /\ SubSeq(s, i, i) \notin {"\n", "\r"} THEN {i + 1} ELSE {}
    [] r.t = "cat" ->
         IF Len(r.rs) = 0 THEN {i}
         ELSE UNION { Ends(Cat(Tail(r.rs)), s, j) : j \in Ends(Head(r.rs), s, i) }
    [] r.t = "alt" ->
         UNION { Ends(r.rs[k], s, i) : k \in 1..Len(r.rs) }
    [] r.t = "star" -> StarEnds(r.r, s, {i})
    [] r.t = "bol" -> IF i = 1 THEN {i} ELSE {}
    [] r.t = "eol" -> IF i = Len(s) + 1 THEN {i} ELSE {}

StarEnds(r, s, S) ==
  LET N == S \cup UNION { Ends(r, s, j) : j \in S }
  IN  IF N = S THEN S ELSE StarEnds(r, s, N)

\* pattern.test(command)
Test(r, s) == \E i \in 1..(Len(s) + 1) : Ends(r, s, i) # {}

Word(ws) == Alt([k \in 1..Len(ws) |-> Lit(ws[k])])
\* (\s|$)
WsOrEol == Alt(<<Ws, Eol>>)

DANGEROUS_PATTERNS ==
  << Cat(<<Lit("rm"), Plus(Ws),
           Alt(<<Cat(<<Lit("-r"), Opt(Lit("f"))>>), Lit("--recursive")>>),
           Plus(Ws), Cls({"/", "~"})>>),
     Cat(<<Lit("rm"), Plus(Ws), Lit("-r"), Opt(Lit("f")), Plus(Ws), Lit("*")>>),
     Cat(<<Lit("rmdir"), Plus(Ws), Cls({"/", "~"})>>),
     Cat(<<Lit("dd"), Plus(Ws), Lit("if=")>>),
     Lit("mkfs"),
     Lit("fdisk"),
     Lit("parted"),
     Lit("shutdown"),
     Lit("reboot"),
     Lit("halt"),
     Lit("poweroff"),
     Cat(<<Lit("init"), Plus(Ws), Cls({"0", "6"})>>),
     Cat(<<Lit("chmod"), Plus(Ws), Opt(Cat(<<Lit("-R"), Plus(Ws)>>)),
           Lit("777"), Plus(Ws), Cls({"/", "~"})>>),
     Cat(<<Lit("chown"), Plus(Ws), Lit("-R"), Plus(Ws), Star(Dot), Plus(Ws),
           Cls({"/", "~"})>>),
     Cat(<<Lit("nc"), Plus(Ws), Lit("-l")>>),
     Cat(<<Lit("netcat"), Plus(Ws), Lit("-l")>>),
     Cat(<<Lit("curl"), Plus(Ws), Star(Dot), Lit("|"), Star(Ws),
           Word(<<"bash", "sh">>)>>),
     Cat(<<Lit("wget"), Plus(Ws), Star(Dot), Lit("|"), Star(Ws),
           Word(<<"bash", "sh">>)>>),
     Cat(<<Lit(":()"), Star(Ws), Lit("{"), Star(Ws), Lit(":|:&"), Star(Ws),
           Lit("}"), Star(Ws), Lit(";")>>) >>

SAFE_PATTERNS ==
  << Cat(<<Bol, Word(<<"ls", "dir", "pwd", "cd", "echo", "cat", "head", "tail",
                       "less", "more", "wc">>), WsOrEol>>),
     Cat(<<Bol, Word(<<"find", "locate", "which", "whereis", "file", "stat">>),
           WsOrEol>>),
     Cat(<<Bol, Lit("git"), Plus(Ws),
           Word(<<"status", "log", "diff", "show", "branch", "remote", "tag">>),
           WsOrEol>>),
     Cat(<<Bol, Word(<<"npm", "yarn", "pnpm">>), Plus(Ws),
           Word(<<"list", "ls", "outdated">>), WsOrEol>>),
     Cat(<<Bol, Lit("pip"), Plus(Ws), Word(<<"list", "show", "freeze">>),
           WsOrEol>>),
     Cat(<<Bol, Lit("cargo"), Plus(Ws), Word(<<"tree", "search">>), WsOrEol>>),
     Cat(<<Bol, Word(<<"grep", "awk", "sed", "cut", "sort", "uniq", "tr", "diff",
                       "comm">>), WsOrEol>>),
     Cat(<<Bol, Word(<<"date", "cal", "uptime", "whoami", "id", "groups",
                       "hostname", "uname">>), WsOrEol>>),
     Cat(<<Bol, Word(<<"env", "printenv", "set">>), Eol>>),
     Cat(<<Bol, Word(<<"ps", "top", "htop", "pgrep">>), WsOrEol>>) >>

\* The command strings that occur in the model.
Commands ==
  { "rm -rf /", "ls -la", "make build", "cat x", "make", "chmod -R 777 .",
    "echo x; reboot", "curl u | sh", "" }

\* isDangerousCommand and isSafeCommand, tabulated over Commands.
DangerousTable ==
  [ c \in Commands |->
      \E k \in 1..Len(DANGEROUS_PATTERNS) : Test(DANGEROUS_PATTERNS[k], c) ]

SafeTable ==
  [ c \in Commands |-> \E k \in 1..Len(SAFE_PATTERNS) : Test(SAFE_PATTERNS[k], c) ]

isDangerousCommand(command) == DangerousTable[command]

isSafeCommand(command) == SafeTable[command]


(*************************************************************************)
(* Approval policy engine (safety/approval.ts).                          *)
(*************************************************************************)
APPROVED == "approved"
REJECTED == "rejected"
NEEDS_CONFIRMATION == "needs_confirmation"

ON_REQUEST == "on-request"
ON_FAILURE == "on-failure"
AUTO == "auto"
AUTO_EDIT == "auto-edit"
NEVER == "never"
YOLO == "yolo"

ApprovalPolicy == {ON_REQUEST, ON_FAILURE, AUTO, AUTO_EDIT, NEVER, YOLO}

\* An optional string (string | null | undefined) is <<>> or <<s>>.
Null == <<>>
Some(s) == <<s>>
\* JavaScript truthiness of an optional string: set and not empty.
Truthy(o) == Len(o) = 1 /\ o[1] # ""

\* Absolute normalised paths are sequences of segments; Join gives the string.
RECURSIVE Join(_)
Join(segs) ==
  IF Len(segs) = 0 THEN ""
  ELSE IF Len(segs) = 1 THEN segs[1]
  ELSE segs[1] \o "/" \o Join(Tail(segs))

RECURSIVE CommonPrefix(_, _)
CommonPrefix(a, b) ==
  IF Len(a) = 0 \/ Len(b) = 0 \/ Head(a) # Head(b) THEN 0
  ELSE 1 + CommonPrefix(Tail(a), Tail(b))

\* path.relative(from, to) of node, for absolute normalised paths.
relative(from, to) ==
  LET k == CommonPrefix(from, to)
      ups == [n \in 1..(Len(from) - k) |-> ".."]
  IN  Join(ups \o SubSeq(to, k + 1, Len(to)))

startsWith(s, prefix) ==
  Len(s) >= Len(prefix) /\ SubSeq(s, 1, Len(prefix)) = prefix

assessCommandSafety(policy, command) ==
  IF policy = YOLO THEN APPROVED
  ELSE IF isDangerousCommand(command) THEN REJECTED
  ELSE IF policy = NEVER
    THEN (IF isSafeCommand(command) THEN APPROVED ELSE REJECTED)
  ELSE IF policy \in {AUTO, ON_FAILURE} THEN APPROVED
  ELSE IF policy = AUTO_EDIT
    THEN (IF isSafeCommand(command) THEN APPROVED ELSE NEEDS_CONFIRMATION)
  ELSE IF isSafeCommand(command) THEN APPROVED
  ELSE NEEDS_CONFIRMATION

\* The decision of the loop over context.affectedPaths and of what follows it.
pathsAndDangerDecision(policy, cwd, context) ==
  IF \E k \in 1..Len(context.affectedPaths) :
        startsWith(relative(cwd, context.affectedPaths[k]), "..")
    THEN NEEDS_CONFIRMATION
  ELSE IF context.isDangerous
    THEN (IF policy = YOLO THEN APPROVED ELSE NEEDS_CONFIRMATION)
  ELSE APPROVED

checkApproval(policy, cwd, context) ==
  IF ~context.isMutating THEN APPROVED
  ELSE IF Truthy(context.command)
          /\ assessCommandSafety(policy, context.command[1]) # NEEDS_CONFIRMATION
    THEN assessCommandSafety(policy, context.command[1])
  ELSE pathsAndDangerDecision(policy, cwd, context)

(*************************************************************************)
(* Inputs of the approval engine.                                        *)
(*************************************************************************)
MaxPaths == 2

HomeU == <<"home", "u">>
Root == <<>>

Paths ==
  { <<"home", "u", "a.txt">>, <<"tmp", "foo">>, <<"home", "u", "..cfg">>,
    <<"home">> }

PathLists == UNION { [1..n -> Paths] : n \in 0..MaxPaths }

ApprovalContext ==
  [ toolName : {"tool"},
    isMutating : BOOLEAN,
    affectedPaths : PathLists,
    command : {Null} \cup { Some(c) : c \in Commands },
    isDangerous : BOOLEAN ]


(*************************************************************************)
(* Strings and paths used by the tools.                                  *)
(*************************************************************************)
\* String.prototype.includes
Includes(s, sub) ==
  \E i \in 1..(Len(s) - Len(sub) + 1) : SubSeq(s, i, i + Len(sub) - 1) = sub

UpperCase == "ABCDEFGHIJKLMNOPQRSTUVWXYZ"
LowerCase == "abcdefghijklmnopqrstuvwxyz"

lowerChar(c) ==
  IF \E i \in 1..Len(UpperCase) : SubSeq(UpperCase, i, i) = c
    THEN LET k == CHOOSE i \in 1..Len(UpperCase) : SubSeq(UpperCase, i, i) = c
         IN  SubSeq(LowerCase, k, k)
    ELSE c

RECURSIVE toLowerCase(_)
toLowerCase(s) ==
  IF Len(s) = 0 THEN ""
  ELSE lowerChar(SubSeq(s, 1, 1)) \o toLowerCase(SubSeq(s, 2, Len(s)))

IsSpace(c) == c \in {" ", "\t", "\n", "\r", "\f"}

RECURSIVE trim(_)
trim(s) ==
  IF Len(s) = 0 THEN ""
  ELSE IF IsSpace(SubSeq(s, 1, 1)) THEN trim(SubSeq(s, 2, Len(s)))
  ELSE IF IsSpace(SubSeq(s, Len(s), Len(s))) THEN trim(SubSeq(s, 1, Len(s) - 1))
  ELSE s

\* Array.prototype.join
RECURSIVE JoinWith(_, _)
JoinWith(strs, sep) ==
  IF Len(strs) = 0 THEN ""
  ELSE IF Len(strs) = 1 THEN strs[1]
  ELSE strs[1] \o sep \o JoinWith(Tail(strs), sep)

\* The segments of a path string, split at "/".
RECURSIVE SplitFrom(_, _, _)
SplitFrom(s, i, cur) ==
  IF i > Len(s) THEN <<cur>>
  ELSE IF SubSeq(s, i, i) = "/" THEN <<cur>> \o SplitFrom(s, i + 1, "")
  ELSE SplitFrom(s, i + 1, cur \o SubSeq(s, i, i))

\* Normalisation of path.resolve: "" and "." dropped, ".." pops a segment.
RECURSIVE Normalize(_, _)
Normalize(segs, acc) ==
  IF Len(segs) = 0 THEN acc
  ELSE IF Head(segs) \in {"", "."} THEN Normalize(Tail(segs), acc)
  ELSE IF Head(segs) = ".."
    THEN Normalize(Tail(segs),
                   IF Len(acc) = 0 THEN acc ELSE SubSeq(acc, 1, Len(acc) - 1))
  ELSE Normalize(Tail(segs), Append(acc, Head(segs)))

\* resolvePath(base, path): base is a resolved path, path a string.
resolvePath(base, path) ==
  IF startsWith(path, "/") THEN Normalize(SplitFrom(path, 1, ""), <<>>)
  ELSE Normalize(base \o SplitFrom(path, 1, ""), <<>>)

\* The string of a resolved path.
PathStr(segs) == "/" \o Join(segs)

(*************************************************************************)
(* Tool contract (tools/base.ts) and the built-in tools the model        *)
(* dispatches: read_file, write_file, edit, shell.                       *)
(*************************************************************************)
READ == "read"
WRITE == "write"
SHELL == "shell"
NETWORK == "network"
MEMORY == "memory"
MCP == "mcp"

errorResult(error, output, metadata) ==
  [success |-> FALSE, output |-> output, error |-> Some(error), metadata |-> metadata]

successResult(output, metadata) ==
  [success |-> TRUE, output |-> output, error |-> Null, metadata |-> metadata]

toModelOutput(result) ==
  IF result.success THEN result.output
  ELSE "Error: " \o (IF result.error = Null THEN "null" ELSE result.error[1])
         \o "\n\nOutput:\n" \o result.output

kind(cls) ==
  CASE cls = "ReadFileTool" -> READ
    [] cls = "WriteFileTool" -> WRITE
    [] cls = "EditFileTool" -> WRITE
    [] cls = "ShellTool" -> SHELL
    [] cls = "MCPTool" -> MCP

isMutating(cls, params) ==
  IF cls = "MCPTool" THEN TRUE
  ELSE kind(cls) \in {WRITE, SHELL, NETWORK, MEMORY}

\* The keys the zod schema of a tool class requires.
RequiredKeys(cls) ==
  CASE cls = "ReadFileTool" -> <<"path">>
    [] cls = "WriteFileTool" -> <<"path", "content">>
    [] cls = "EditFileTool" -> <<"path", "newString">>
    [] cls = "ShellTool" -> <<"command">>
    [] cls = "MCPTool" -> <<>>

validateParams(cls, params) ==
  LET Missing(key) == key \notin DOMAIN params
      missing == SelectSeq(RequiredKeys(cls), Missing)
  IN  [k \in 1..Len(missing) |-> "Parameter '" \o missing[k] \o "': Required"]

BLOCKED_COMMANDS ==
  << "rm -rf /", "rm -rf ~", "rm -rf /*", "dd if=/dev/zero", "dd if=/dev/random",
     "mkfs", "fdisk", "parted", ":(){ :|:& };:", "chmod 777 /", "chmod -R 777",
     "shutdown", "reboot", "halt", "poweroff", "init 0", "init 6" >>

ContainsBlocked(command) ==
  \E k \in 1..Len(BLOCKED_COMMANDS) : Includes(command, BLOCKED_COMMANDS[k])

\* read_file cuts its output at MAX_OUTPUT_TOKENS tokens; BigOutput stands for
\* the text of an output of that size.
MAX_OUTPUT_TOKENS == 25000
BigOutput == "<output of 25000 tokens>"

\* What the file system answers for the path of a call: the file is absent,
\* a readable file, a readable file of the largest size read_file returns
\* ("big"), or something readFileSync throws on (a directory, no permission).
FsKinds == {"absent", "file", "big", "unreadable"}

\* The environment of one invoke: the file system, the user's answer to a
\* confirmation request, and whether the operation itself succeeds.
Envs == [fs : FsKinds, answer : BOOLEAN, exec : {"ok", "error"}]

ToolConfirmation(toolName, params, affectedPaths, command, isDangerous) ==
  [ t |-> "confirmation", toolName |-> toolName, params |-> params,
    affectedPaths |-> affectedPaths, command |-> command,
    isDangerous |-> isDangerous ]

NoConfirmation == [t |-> "null"]
Throws(error) == [t |-> "throw", error |-> error]

\* tool.getConfirmation(invocation)
getConfirmation(cls, name, params, cwd, env) ==
  CASE cls = "ShellTool" ->
         ToolConfirmation(name, params, <<>>, Some(params.command),
                          ContainsBlocked(params.command))
    [] cls = "WriteFileTool" ->
         ToolConfirmation(name, params, <<resolvePath(cwd, params.path)>>, Null,
                          env.fs # "absent")
    [] cls = "EditFileTool" ->
         IF env.fs = "unreadable"
           THEN Throws("EISDIR: illegal operation on a directory, read")
           ELSE ToolConfirmation(name, params, <<resolvePath(cwd, params.path)>>,
                                 Null, FALSE)
    [] OTHER ->
         IF ~isMutating(cls, params) THEN NoConfirmation
         ELSE ToolConfirmation(name, params, <<>>, Null, FALSE)

Returns(result) == [t |-> "result", result |-> result]

\* The trimmed stdout of a command that exits with 0 and writes nothing to
\* stderr: x is an empty file, so `cat x` prints nothing.
StdoutOf(command) == IF command = "cat x" THEN "" ELSE "stdout"

\* tool.execute(invocation)
execute(cls, name, params, cwd, env) ==
  CASE cls = "ShellTool" ->
         IF ContainsBlocked(trim(toLowerCase(params.command)))
           THEN Returns(errorResult("Command blocked for safety: " \o params.command,
                                    "", {"blocked"}))
         ELSE IF env.exec = "ok"
           THEN Returns(successResult(StdoutOf(params.command), {"exit_code"}))
           ELSE Returns(errorResult("Command failed", "", {"exit_code"}))
    [] cls = "ReadFileTool" ->
         LET path == PathStr(resolvePath(cwd, params.path))
         IN  IF env.fs = "absent"
               THEN Returns(errorResult("File not found: " \o path, "", {}))
             ELSE IF env.fs = "unreadable"
               THEN Returns(errorResult("Path is not a file: " \o path, "", {}))
             ELSE IF env.fs = "big"
               THEN Returns(successResult(BigOutput, {"path", "truncated"}))
             ELSE Returns(successResult("     1|text", {"path"}))
    [] cls = "WriteFileTool" ->
         LET path == PathStr(resolvePath(cwd, params.path))
         IN  IF env.exec = "ok"
               THEN Returns(successResult(
                      (IF env.fs = "absent" THEN "Created " ELSE "Updated ")
                        \o path \o " 1 lines", {"path"}))
               ELSE Returns(errorResult("Failed to write file: EACCES", "", {}))
    [] cls = "EditFileTool" ->
         LET path == PathStr(resolvePath(cwd, params.path))
         IN  IF env.fs = "absent"
               THEN IF "oldString" \in DOMAIN params /\ params.oldString # ""
                      THEN Returns(errorResult("File does not exist: " \o path
                             \o ". To create a new file, use an empty old_string.",
                             "", {}))
                    ELSE IF env.exec = "ok"
                      THEN Returns(successResult("Created " \o path \o " 1 lines",
                                                 {"path"}))
                      ELSE Throws("EACCES: permission denied, open")
             ELSE IF env.fs = "unreadable"
               THEN Throws("EISDIR: illegal operation on a directory, read")
             ELSE IF env.exec = "ok"
               THEN Returns(successResult("Edited " \o path
                              \o ": replaced 1 occurrence(s)", {"path"}))
               ELSE Returns(errorResult("Failed to write file: EACCES", "", {}))
    [] cls = "MCPTool" ->
         IF env.exec = "ok" THEN Returns(successResult("mcp output", {}))
         ELSE Returns(errorResult("MCP tool failed: Error", "", {}))


(*************************************************************************)
(* Tool registry and invocation pipeline (tools/registry.ts).            *)
(*************************************************************************)
\* config.cwd, which is also the cwd of the session's ApprovalManager.
ConfigCwd == HomeU

\* ToolRegistry.get(name): the tool, or null.
get(name) ==
  IF name \in DOMAIN tools THEN Some(tools[name])
  ELSE IF name \in DOMAIN mcpTools THEN Some(mcpTools[name])
  ELSE Null

\* ToolRegistry.getTools(): the names of the tools offered to the model.
getTools ==
  LET all == DOMAIN tools \cup DOMAIN mcpTools
  IN  IF allowedTools # Null THEN { n \in all : n \in allowedTools[1] } ELSE all

(*************************************************************************)
(* Hooks (hooks/hook_system.ts).                                         *)
(*                                                                       *)
(* A hook of the model is [trigger, script, does]: `script` says whether *)
(* it has a script instead of a command, `does` what running it comes    *)
(* to.  What a hook's command changes in the file system and how long it *)
(* takes are outside the model.                                          *)
(*************************************************************************)
BEFORE_AGENT == "before_agent"
AFTER_AGENT == "after_agent"
BEFORE_TOOL == "before_tool"
AFTER_TOOL == "after_tool"
ON_ERROR == "on_error"

\* What running a hook comes to: its command exits with 0 or with another
\* code, cannot be started, is killed when the timer aborts it (the error of
\* exec then carries the signal SIGABRT or another one), or, for a script,
\* the script file cannot be written.
HookFates ==
  {"exits 0", "exits 1", "cannot start", "killed SIGABRT", "killed SIGTERM",
   "cannot write script"}

\* HookSystem.runCommand(command, timeout, env): TRUE when it throws.
runCommand(does) ==
  IF does = "exits 0" THEN FALSE
  ELSE IF does = "killed SIGABRT" THEN FALSE
  ELSE TRUE

\* What the try block of runHook does: TRUE when it throws.
RunHookBody(hook) ==
  IF ~hook.script THEN runCommand(hook.does)
  ELSE IF hook.does = "cannot write script" THEN TRUE
  ELSE runCommand(hook.does)

\* runHook letting the error of its try block through.
runHook_Rethrows(hook) == RunHookBody(hook)

\* HookSystem.runHook(hook, env): TRUE when it throws.  The catch logs the
\* error of the try block and does not rethrow.
runHook(hook) ==
  IF RunHookBody(hook) THEN FALSE ELSE FALSE

\* triggerBeforeAgent, triggerAfterAgent, triggerBeforeTool, triggerAfterTool:
\* the hooks of the trigger are run in order; TRUE when one of them throws.
trigger(hookSystem, hookTrigger) ==
  \E i \in 1..Len(hookSystem) :
    hookSystem[i].trigger = hookTrigger /\ runHook(hookSystem[i])

\* The error a throwing hook propagates.
HookError == "Command failed"

BeforeToolEv(name, params) == [e |-> "beforeTool", name |-> name, params |-> params]
AfterToolEv(name, params, result) ==
  [e |-> "afterTool", name |-> name, params |-> params, result |-> result]
CheckApprovalEv(decision) == [e |-> "checkApproval", decision |-> decision]
CallbackEv(answer) == [e |-> "confirmationCallback", answer |-> answer]
ExecuteEv(name) == [e |-> "execute", name |-> name]

\* invoke returned `result` after the steps `events`.
Returned(events, result) == [events |-> events, outcome |-> Returns(result)]
\* invoke raised `error` after the steps `events`.
Raised(events, error) == [events |-> events, outcome |-> Throws(error)]

\* requestConfirmation approving whatever the callback answers.
requestConfirmation_IgnoresAnswer(callback, env) ==
  [called |-> callback, answer |-> env.answer, approved |-> TRUE]

\* ApprovalManager.requestConfirmation(confirmation): whether the callback was
\* called, what it answered, and what requestConfirmation returns.
requestConfirmation(callback, env) ==
  IF callback THEN [called |-> TRUE, answer |-> env.answer, approved |-> env.answer]
  ELSE [called |-> FALSE, answer |-> TRUE, approved |-> TRUE]

\* hookSystem.triggerAfterTool(name, params, result) followed by
\* `return result`, after the steps `pre`.
afterTool(hookSystem, pre, name, params, result) ==
  IF trigger(hookSystem, AFTER_TOOL)
    THEN Raised(pre \o <<AfterToolEv(name, params, result)>>, HookError)
    ELSE Returned(pre \o <<AfterToolEv(name, params, result)>>, result)

\* runExecute triggering the afterTool hook before the tool is executed.
runExecute_HookFirst(hookSystem, cls, name, params, cwd, env, pre) ==
  LET r == execute(cls, name, params, cwd, env)
      result == IF r.t = "result" THEN r.result
                ELSE errorResult("Internal error: " \o r.error, "", {"tool_name"})
  IN  Returned(pre \o <<AfterToolEv(name, params, result), ExecuteEv(name)>>, result)

\* The try/catch around tool.execute, and the afterTool hook of either
\* branch: an error of the hook in the try block is caught as well.
runExecute(hookSystem, cls, name, params, cwd, env, pre) ==
  LET r == execute(cls, name, params, cwd, env)
      tried == IF r.t = "result"
                 THEN afterTool(hookSystem, pre \o <<ExecuteEv(name)>>, name, params,
                                r.result)
                 ELSE Raised(pre \o <<ExecuteEv(name)>>, r.error)
  IN  IF tried.outcome.t = "throw"
        THEN afterTool(hookSystem, tried.events, name, params,
                       errorResult("Internal error: " \o tried.outcome.error, "",
                                   {"tool_name"}))
        ELSE tried

\* afterApproval without the branch for REJECTED.
afterApproval_RejectedRuns(hookSystem, cls, name, params, cwd, env, pre, decision) ==
  IF decision = NEEDS_CONFIRMATION
    THEN LET rc == requestConfirmation(confirmationCallback, env)
             asked == IF rc.called THEN pre \o <<CallbackEv(rc.answer)>> ELSE pre
         IN  IF ~rc.approved
               THEN afterTool(hookSystem, asked, name, params,
                              errorResult("User rejected the operation", "", {}))
               ELSE runExecute(hookSystem, cls, name, params, cwd, env, asked)
  ELSE runExecute(hookSystem, cls, name, params, cwd, env, pre)

\* What invoke does with the decision of checkApproval.
afterApproval(hookSystem, cls, name, params, cwd, env, pre, decision) ==
  IF decision = REJECTED
    THEN afterTool(hookSystem, pre, name, params,
                   errorResult("Operation rejected by safety policy", "", {}))
  ELSE IF decision = NEEDS_CONFIRMATION
    THEN LET rc == requestConfirmation(confirmationCallback, env)
             asked == IF rc.called THEN pre \o <<CallbackEv(rc.answer)>> ELSE pre
         IN  IF ~rc.approved
               THEN afterTool(hookSystem, asked, name, params,
                              errorResult("User rejected the operation", "", {}))
               ELSE runExecute(hookSystem, cls, name, params, cwd, env, asked)
  ELSE runExecute(hookSystem, cls, name, params, cwd, env, pre)

\* The ApprovalContext invoke makes from the tool's confirmation.
approvalContext(cls, name, params, confirmation) ==
  [ toolName |-> name,
    isMutating |-> isMutating(cls, params),
    affectedPaths |-> confirmation.affectedPaths,
    command |-> confirmation.command,
    isDangerous |-> confirmation.isDangerous ]

\* ToolRegistry.invoke(name, params, cwd, hookSystem, approvalManager)
invoke(name, params, cwd, hookSystem, withApproval, env) ==
  IF get(name) = Null
    THEN afterTool(hookSystem, << >>, name, params,
                   errorResult("Unknown tool: " \o name, "", {"tool_name"}))
  ELSE
    LET cls == get(name)[1]
        validationErrors == validateParams(cls, params)
    IN  IF Len(validationErrors) > 0
          THEN afterTool(hookSystem, << >>, name, params,
                         errorResult(
                           "Invalid parameters: " \o JoinWith(validationErrors, "; "),
                           "", {"tool_name", "validation_errors"}))
        ELSE
          LET pre == <<BeforeToolEv(name, params)>>
          IN  IF trigger(hookSystem, BEFORE_TOOL) THEN Raised(pre, HookError)
              ELSE IF ~withApproval
                THEN runExecute(hookSystem, cls, name, params, cwd, env, pre)
              ELSE
                LET confirmation == getConfirmation(cls, name, params, cwd, env)
                IN  IF confirmation.t = "throw" THEN Raised(pre, confirmation.error)
                    ELSE IF confirmation.t = "null"
                      THEN runExecute(hookSystem, cls, name, params, cwd, env, pre)
                    ELSE
                      LET context == approvalContext(cls, name, params, confirmation)
                          decision == checkApproval(approvalPolicy, ConfigCwd, context)
                      IN  afterApproval(hookSystem, cls, name, params, cwd, env,
                                        pre \o <<CheckApprovalEv(decision)>>, decision)

\* createDefaultRegistry(config), as far as the model's tools go.
DefaultTools ==
  [ n \in {"read_file", "write_file", "edit", "shell"} |->
      CASE n = "read_file" -> "ReadFileTool"
        [] n = "write_file" -> "WriteFileTool"
        [] n = "edit" -> "EditFileTool"
        [] n = "shell" -> "ShellTool" ]

(*************************************************************************)
(* LLM client (client/llm_client.ts, client/response.ts).                *)
(*                                                                       *)
(* A script is what the API does on the successive attempts of one       *)
(* chatCompletion call: attempt k+1 of the call plays script[k+1].       *)
(*************************************************************************)
maxRetries == 3

TokenUsage(promptTokens, completionTokens, totalTokens, cachedTokens) ==
  [promptTokens |-> promptTokens, completionTokens |-> completionTokens,
   totalTokens |-> totalTokens, cachedTokens |-> cachedTokens]

\* add returning the usage added instead of the sum.
add_Replaces(this, other) ==
  TokenUsage(other.promptTokens, other.completionTokens, other.totalTokens,
             other.cachedTokens)

\* TokenUsage.add(other)
add(this, other) ==
  TokenUsage(this.promptTokens + other.promptTokens,
             this.completionTokens + other.completionTokens,
             this.totalTokens + other.totalTokens,
             this.cachedTokens + other.cachedTokens)

\* The usage block of a response whose total is n tokens, two of them
\* completion tokens and one of the prompt tokens cached.
UsageOf(n) == TokenUsage(n - 2, 2, n, 1)

ToolCall(callId, name, args) == [callId |-> callId, name |-> name, args |-> args]

\* StreamEvent, by type.
TextDeltaEv(content) == [type |-> "text_delta", content |-> content]
ToolCallStartEv(callId, name) ==
  [type |-> "tool_call_start", callId |-> callId, name |-> name]
ToolCallDeltaEv(callId, name, argumentsDelta) ==
  [type |-> "tool_call_delta", callId |-> callId, name |-> name,
   argumentsDelta |-> argumentsDelta]
ToolCallCompleteEv(toolCall) == [type |-> "tool_call_complete", toolCall |-> toolCall]
MessageCompleteEv(delta, finishReason, toolCall, reported) ==
  [type |-> "message_complete", textDelta |-> delta,
   finishReason |-> finishReason, toolCall |-> toolCall, usage |-> reported]
ErrorEv(error) == [type |-> "error", error |-> error]

\* What the API does on one attempt: it answers, or it fails after it has
\* streamed `partial`.
Answer(text, calls, reported) ==
  [t |-> "answer", text |-> text, calls |-> calls, usage |-> reported]
Failure(status, type, message, partial) ==
  [t |-> "failure", partial |-> partial,
   error |-> [status |-> status, type |-> type, message |-> message]]

RateLimit(partial) == Failure(429, "", "rate limited", partial)
ConnectionError(partial) == Failure(0, "connection_error", "connection lost", partial)
ServerError(partial) == Failure(500, "", "server error", partial)

\* The finish_reason the API gives with an answer.
FinishReason(answer) == IF Len(answer.calls) > 0 THEN "tool_calls" ELSE "stop"

RECURSIVE ToolCallChunks(_)
\* streamResponse, lines 142-180: the events of the tool-call deltas.
ToolCallChunks(calls) ==
  IF Len(calls) = 0 THEN <<>>
  ELSE LET tc == Head(calls)
       IN  (IF tc.name # "" THEN <<ToolCallStartEv(tc.callId, tc.name)>> ELSE <<>>)
           \o <<ToolCallDeltaEv(tc.callId, tc.name, tc.args)>>
           \o ToolCallChunks(Tail(calls))

\* LLMClient.streamResponse: the events it yields, and the error it throws
\* (Null when it returns).
streamResponse(attempt) ==
  IF attempt.t = "failure"
    THEN [events |-> IF attempt.partial # "" THEN <<TextDeltaEv(attempt.partial)>>
                     ELSE <<>>,
          error |-> Some(attempt.error)]
    ELSE [events |->
            (IF attempt.text # "" THEN <<TextDeltaEv(attempt.text)>> ELSE <<>>)
            \o ToolCallChunks(attempt.calls)
            \o [k \in 1..Len(attempt.calls) |-> ToolCallCompleteEv(attempt.calls[k])]
            \o <<MessageCompleteEv(Null, Some(FinishReason(attempt)), Null,
                                   attempt.usage)>>,
          error |-> Null]

\* LLMClient.nonStreamResponse: the one event it returns, or the error.
nonStreamResponse(attempt) ==
  IF attempt.t = "failure"
    THEN [events |-> <<>>, error |-> Some(attempt.error)]
    ELSE [events |->
            <<MessageCompleteEv(IF attempt.text # "" THEN Some(attempt.text) ELSE Null,
                                Some(FinishReason(attempt)),
                                IF Len(attempt.calls) > 0 THEN Some(attempt.calls[1])
                                ELSE Null,
                                attempt.usage)>>,
          error |-> Null]

\* A back-off that grows by one second for each attempt.
Pow2_Linear(n) == n + 1

\* Math.pow(2, attempt)
Pow2(n) == IF n = 0 THEN 1 ELSE IF n = 1 THEN 2 ELSE IF n = 2 THEN 4 ELSE 8

RECURSIVE chatCompletionFrom(_, _, _)
\* The retry loop of chatCompletion from attempt `attempt` on: the events
\* yielded and the seconds waited before each retry.
chatCompletionFrom(script, stream, attempt) ==
  LET r == IF stream THEN streamResponse(script[attempt + 1])
           ELSE nonStreamResponse(script[attempt + 1])
  IN  IF r.error = Null
        THEN [events |-> r.events, waits |-> <<>>]
      ELSE IF (r.error[1].status = 429 /\ attempt < maxRetries)
              \/ (r.error[1].type = "connection_error" /\ attempt < maxRetries)
        THEN LET rest == chatCompletionFrom(script, stream, attempt + 1)
             IN  [events |-> r.events \o rest.events,
                  waits |-> <<Pow2(attempt)>> \o rest.waits]
      ELSE [events |-> r.events \o <<ErrorEv("API error: " \o r.error[1].message)>>,
            waits |-> <<>>]

\* LLMClient.chatCompletion(messages, tools, stream)
chatCompletion(script, stream) == chatCompletionFrom(script, stream, 0)


(*************************************************************************)
(* Context manager (context/manager.ts), compactor                       *)
(* (context/compaction.ts) and loop detector (context/loop_detector.ts). *)
(*************************************************************************)
Max(a, b) == IF a >= b THEN a ELSE b

\* TenKOutput stands for the text of a tool output of 10,000 tokens.
TenKOutput == "<output of 10000 tokens>"

\* countTokens(text): Math.max(1, Math.floor(text.length / 4))
countTokens(text) ==
  IF text = BigOutput THEN MAX_OUTPUT_TOKENS
  ELSE IF text = TenKOutput THEN 10000
  ELSE Max(1, Len(text) \div 4)

MessageItem(role, content, toolCallId, calls) ==
  [role |-> role, content |-> content, toolCallId |-> toolCallId, toolCalls |-> calls,
   tokenCount |-> countTokens(content), prunedAt |-> FALSE]

addUserMessage(msgs, content) == Append(msgs, MessageItem("user", content, Null, <<>>))

\* content is an optional string: null and "" are both stored as "".
addAssistantMessage(msgs, content, calls) ==
  Append(msgs, MessageItem("assistant",
                           IF Truthy(content) THEN content[1] ELSE "", Null, calls))

addToolResult(msgs, toolCallId, content) ==
  Append(msgs, MessageItem("tool", content, Some(toolCallId), <<>>))

\* addToolResults that adds the results from the last call to the first.
RECURSIVE addToolResults_Reversed(_, _)
addToolResults_Reversed(msgs, results) ==
  IF Len(results) = 0 THEN msgs
  ELSE addToolResult(addToolResults_Reversed(msgs, Tail(results)),
                     Head(results).toolCallId, Head(results).content)

\* addToolResults that adds the result of the first call only.
addToolResults_FirstOnly(msgs, results) ==
  IF Len(results) = 0 THEN msgs
  ELSE addToolResult(msgs, Head(results).toolCallId, Head(results).content)

RECURSIVE addToolResults(_, _)
addToolResults(msgs, results) ==
  IF Len(results) = 0 THEN msgs
  ELSE addToolResults(addToolResult(msgs, Head(results).toolCallId,
                                    Head(results).content), Tail(results))

\* The wire form of the tool calls on the assistant message.
WireToolCalls(calls) ==
  [ k \in 1..Len(calls) |->
      [ id |-> calls[k].callId, type |-> "function",
        function |-> [name |-> calls[k].name, arguments |-> calls[k].args] ] ]

\* MessageItem.toDict that leaves the tool calls out.
toDict_NoToolCalls(item) ==
  [role |-> item.role]
    @@ (IF Truthy(item.toolCallId) THEN [tool_call_id |-> item.toolCallId[1]] ELSE << >>)
    @@ (IF item.content # "" THEN [content |-> item.content] ELSE << >>)

\* MessageItem.toDict(): the keys tool_call_id, tool_calls and content are
\* present only when the field is truthy (non-empty).
toDict(item) ==
  [role |-> item.role]
    @@ (IF Truthy(item.toolCallId) THEN [tool_call_id |-> item.toolCallId[1]] ELSE << >>)
    @@ (IF Len(item.toolCalls) > 0 THEN [tool_calls |-> item.toolCalls] ELSE << >>)
    @@ (IF item.content # "" THEN [content |-> item.content] ELSE << >>)

\* ContextManager.getMessages(): the system prompt, which is never empty,
\* and the dictionary of every message.
getMessages(msgs) ==
  <<[role |-> "system", content |-> "system prompt"]>>
    \o [ i \in 1..Len(msgs) |-> toDict(msgs[i]) ]

\* needsCompression that is true from 0.8 * contextWindow on.
needsCompression_AtThreshold(latest, window) == 10 * latest.totalTokens >= 8 * window

\* ContextManager.needsCompression(): latestUsage.totalTokens > contextWindow * 0.8
needsCompression(latest, window) == 10 * latest.totalTokens > 8 * window

ContinuationContent(summary) == "# Context Restoration\n---\n" \o summary \o "\n---\nResume"
AckContent == "I've reviewed the context from the previous session."
ContinueContent == "Continue with the REMAINING work only."

\* ContextManager.replaceWithSummary(summary)
replaceWithSummary(summary) ==
  << MessageItem("user", ContinuationContent(summary), Null, <<>>),
     MessageItem("assistant", AckContent, Null, <<>>),
     MessageItem("user", ContinueContent, Null, <<>>) >>

\* compress that returns an empty summary with the usage when the answer
\* holds no text.
compress_EmptySummary(msgs, script) ==
  IF Len(getMessages(msgs)) < 3 THEN Null
  ELSE LET evs == chatCompletion(script, FALSE).events
           done == { k \in 1..Len(evs) : evs[k].type = "message_complete" }
       IN  IF done = {} THEN Null
           ELSE LET ev == evs[CHOOSE k \in done : TRUE]
                IN  IF ev.usage = Null THEN Null
                    ELSE Some([summary |-> IF ev.textDelta = Null THEN ""
                                           ELSE ev.textDelta[1],
                               usage |-> ev.usage[1]])

\* ChatCompactor.compress(contextManager): Null for [null, null], else the
\* summary and its usage.  `script` is what the API does on the request.
compress(msgs, script) ==
  IF Len(getMessages(msgs)) < 3 THEN Null
  ELSE LET evs == chatCompletion(script, FALSE).events
           done == { k \in 1..Len(evs) : evs[k].type = "message_complete" }
       IN  IF done = {} THEN Null
           ELSE LET ev == evs[CHOOSE k \in done : TRUE]
                IN  IF ev.textDelta = Null \/ ev.usage = Null THEN Null
                    ELSE Some([summary |-> ev.textDelta[1], usage |-> ev.usage[1]])

PRUNE_PROTECT_TOKENS == 40000
PRUNE_MINIMUM_TOKENS == 20000

\* One iteration of the backward loop of pruneToolOutputs, at message i:
\* `scan` holds totalTokens, prunedTokens, the indices of toPrune and
\* whether the loop was left by `break`.
PruneStep(msgs, i, scan) ==
  LET msg == msgs[i]
  IN  IF scan.broken THEN scan
      ELSE IF msg.role = "tool" /\ Truthy(msg.toolCallId)
        THEN IF msg.prunedAt THEN [scan EXCEPT !.broken = TRUE]
             ELSE LET total == scan.totalTokens + msg.tokenCount
                  IN  IF total > PRUNE_PROTECT_TOKENS
                        THEN [scan EXCEPT !.totalTokens = total,
                                          !.prunedTokens = @ + msg.tokenCount,
                                          !.toPrune = @ \cup {i}]
                        ELSE [scan EXCEPT !.totalTokens = total]
      ELSE scan

RECURSIVE PruneScan(_, _, _, _)
\* The iterations hi, hi - 1, ..., lo of the backward loop of
\* pruneToolOutputs, in that order, starting from `scan`: those of the
\* upper half of the range, then, unless the loop was left there, those of
\* the lower half.
PruneScan(msgs, hi, lo, scan) ==
  IF hi < lo THEN scan
  ELSE IF hi = lo THEN PruneStep(msgs, hi, scan)
  ELSE LET mid == (hi + lo + 1) \div 2
           upper == PruneScan(msgs, hi, mid, scan)
       IN  IF upper.broken THEN upper ELSE PruneScan(msgs, mid - 1, lo, upper)

PrunedContent == "[Old tool result content cleared]"

\* ContextManager.pruneToolOutputs()
pruneToolOutputs(msgs) ==
  IF Cardinality({ i \in DOMAIN msgs : msgs[i].role = "user" }) < 2 THEN msgs
  ELSE LET scan == PruneScan(msgs, Len(msgs), 1,
                             [totalTokens |-> 0, prunedTokens |-> 0, toPrune |-> {},
                              broken |-> FALSE])
       IN  IF scan.prunedTokens < PRUNE_MINIMUM_TOKENS THEN msgs
           ELSE [ i \in DOMAIN msgs |->
                    IF i \in scan.toPrune
                      THEN [msgs[i] EXCEPT !.content = PrunedContent,
                                           !.tokenCount = countTokens(PrunedContent),
                                           !.prunedAt = TRUE]
                      ELSE msgs[i] ]

maxExactRepeats == 3
maxCycleLength == 3
maxHistorySize == 20

\* LoopDetector.recordAction: the signature is the action type with the tool
\* name and arguments, or with the text.
recordAction(hist, signature) ==
  LET h == Append(hist, signature)
  IN  IF Len(h) > maxHistorySize THEN Tail(h) ELSE h

Min(a, b) == IF a <= b THEN a ELSE b

LastN(s, n) == SubSeq(s, Len(s) - n + 1, Len(s))

\* The cycle lengths for which the last 2 * cycleLen actions repeat.
Cycles(hist) ==
  { cycleLen \in 2..Min(maxCycleLength, Len(hist) \div 2) :
      SubSeq(LastN(hist, cycleLen * 2), 1, cycleLen)
        = SubSeq(LastN(hist, cycleLen * 2), cycleLen + 1, cycleLen * 2) }

\* checkForLoop looking for cycles before it looks for repeats.
checkForLoop_CyclesFirst(hist) ==
  IF Len(hist) < 2 THEN Null
  ELSE IF Len(hist) >= maxCycleLength * 2 /\ Cycles(hist) # {}
    THEN Some("Detected repeating cycle of length "
              \o ToString(CHOOSE c \in Cycles(hist) :
                            \A d \in Cycles(hist) : c <= d))
  ELSE IF Len(hist) >= maxExactRepeats
          /\ Cardinality({ LastN(hist, maxExactRepeats)[k] : k \in 1..maxExactRepeats }) = 1
    THEN Some("Same action repeated 3 times")
  ELSE Null

\* LoopDetector.checkForLoop(): Null or the description of the loop.
checkForLoop(hist) ==
  IF Len(hist) < 2 THEN Null
  ELSE IF Len(hist) >= maxExactRepeats
          /\ Cardinality({ LastN(hist, maxExactRepeats)[k] : k \in 1..maxExactRepeats }) = 1
    THEN Some("Same action repeated 3 times")
  ELSE IF Len(hist) >= maxCycleLength * 2 /\ Cycles(hist) # {}
    THEN Some("Detected repeating cycle of length "
              \o ToString(CHOOSE c \in Cycles(hist) :
                            \A d \in Cycles(hist) : c <= d))
  ELSE Null

createLoopBreakerPrompt(loopDescription) == "Loop detected: " \o loopDescription


(*************************************************************************)
(* Agent events (agent/events.ts) and the agent turn loop                *)
(* (agent/agent.ts).                                                     *)
(*************************************************************************)
agentStart(message) == [type |-> "agent_start", message |-> message]
agentEnd(response) == [type |-> "agent_end", response |-> response]
agentError(error) == [type |-> "agent_error", error |-> error]
textDelta(content) == [type |-> "text_delta", content |-> content]
textComplete(content) == [type |-> "text_complete", content |-> content]
toolCallStart(callId, name, arguments) ==
  [type |-> "tool_call_start", call_id |-> callId, name |-> name,
   arguments |-> arguments]
toolCallComplete(callId, name, result) ==
  [type |-> "tool_call_complete", call_id |-> callId, name |-> name,
   success |-> result.success, output |-> result.output, error |-> result.error]

MaxTurns == 2
\* The number of tool calls the model has in its context is at most MaxCalls.
MaxCalls == 2

RECURSIVE CallsMade(_)
CallsMade(msgs) ==
  IF Len(msgs) = 0 THEN 0 ELSE Len(Head(msgs).toolCalls) + CallsMade(Tail(msgs))

\* What the model may answer: texts, and tool calls by name and arguments.
Texts == {"", "ok"}

ToolCallChoices ==
  { [name |-> "read_file", args |-> [path |-> "a.txt"]],
    [name |-> "shell", args |-> [command |-> "ls -la"]],
    [name |-> "shell", args |-> [command |-> "rm -rf /"]],
    [name |-> "shell", args |-> [command |-> "chmod -R 777 ."]],
    [name |-> "shell", args |-> [timeout |-> 5]],
    [name |-> "write_file", args |-> [path |-> "/tmp/foo", content |-> "x"]],
    [name |-> "edit", args |-> [path |-> "a.txt", newString |-> "x"]],
    [name |-> "nope", args |-> [path |-> "a.txt"]] }



\* The answers of the API in turn `turn` that call up to n tools of `choices`;
\* the API numbers the calls of a turn.
Answers(turn, choices, n, usages) ==
  { Answer(text,
           [ k \in 1..Len(calls) |->
               ToolCall(<<turn, k>>, calls[k].name, calls[k].args) ],
           u) :
      text \in Texts, u \in usages,
      calls \in UNION { [1..j -> choices] : j \in 0..n } }

\* The scripts of the session of Spec: the API answers at once and reports
\* no usage.
ChatScripts(turn) == { <<a>> : a \in Answers(turn, ToolCallChoices, MaxCalls, {Null}) }

\* No compaction request is played when none is needed.
NoScript == <<>>

NoInvoke == [name |-> "", params |-> <<>>, events |-> <<>>, outcome |-> [t |-> "none"]]

\* The consumer of the events of Agent.run when the agent is no sub-agent: it
\* takes every event.
NoSubagent == [active |-> FALSE]

\* The generator Agent.run advances when its consumer asks for the next
\* event: a sub-agent's consumer does so after it has handled the last one,
\* unless it has left its loop.
Resumed ==
  subagent.active => (subagent.state = "running" /\ subagent.consumed = Len(agentEvents))

RECURSIVE StreamFold(_, _)
\* StreamFold that yields nothing on an ERROR event.
StreamFold_SilentError(stream, acc) ==
  IF Len(stream) = 0 THEN acc
  ELSE LET event == Head(stream)
           next ==
             CASE event.type = "text_delta" ->
                    [acc EXCEPT !.responseText = @ \o event.content,
                                !.yielded = Append(@, textDelta(event.content))]
               [] event.type = "tool_call_complete" ->
                    [acc EXCEPT !.toolCalls = Append(@, event.toolCall)]
               [] event.type = "message_complete" ->
                    [acc EXCEPT !.usage = event.usage]
               [] OTHER -> acc
       IN  StreamFold(Tail(stream), next)

\* The loop of agenticLoop over the stream events (lines 73-92), from the
\* values `acc` of responseText, toolCalls, usage and the events yielded.
StreamFold(stream, acc) ==
  IF Len(stream) = 0 THEN acc
  ELSE LET event == Head(stream)
           next ==
             CASE event.type = "text_delta" ->
                    [acc EXCEPT !.responseText = @ \o event.content,
                                !.yielded = Append(@, textDelta(event.content))]
               [] event.type = "tool_call_complete" ->
                    [acc EXCEPT !.toolCalls = Append(@, event.toolCall)]
               [] event.type = "error" ->
                    [acc EXCEPT !.yielded =
                       Append(@, agentError(IF event.error # "" THEN event.error
                                            ELSE "Unknown error occurred."))]
               [] event.type = "message_complete" ->
                    [acc EXCEPT !.usage = event.usage]
               [] OTHER -> acc
       IN  StreamFold(Tail(stream), next)

\* The usage of a turn is recorded when the stream reported one.
setLatestUsage(latest, u) == IF u # Null THEN u[1] ELSE latest
addUsage(total, u) == IF u # Null THEN add(total, u[1]) ELSE total

\* The content of the last TEXT_COMPLETE event, which Agent.run keeps as
\* finalResponse.
finalResponseOf(evs) ==
  LET tc == { k \in 1..Len(evs) : evs[k].type = "text_complete" }
  IN  IF tc = {} THEN Null
      ELSE Some(evs[CHOOSE k \in tc : \A j \in tc : j <= k].content)

config == <<approvalPolicy, confirmationCallback, allowedTools, maxTurns, contextWindow,
            tools>>

\* Agent.run(message) up to the first turn of agenticLoop: the beforeAgent
\* hooks of `hookSystem` are triggered, AGENT_START is yielded and the
\* message is added.
RunUnder(hookSystem) ==
  /\ pc = "idle"
  /\ Resumed
  /\ IF trigger(hookSystem, BEFORE_AGENT)
       THEN /\ pc' = "thrown"
            /\ UNCHANGED <<agentEvents, messages, turnNum>>
       ELSE /\ agentEvents' = Append(agentEvents, agentStart("task"))
            /\ messages' = addUserMessage(messages, "task")
            /\ turnNum' = 0
            /\ pc' = "llm"
  /\ UNCHANGED <<avars, xvars, cvars, mvars, config, toolCalls, tci, toolCallResults, inv,
                 turnUsage, latestUsage, totalUsage, history, requests, subagent>>

\* Agent.run with the hook system of the session.
Run == RunUnder(hooks)

\* One turn of agenticLoop up to the dispatch of its tool calls: the turn is
\* counted by session.incrementTurn(), the context is compacted when needed, the stream of the model is consumed and the
\* assistant message is added; a turn with no tool calls ends the loop.
\* `scripts` are the scripts the API may play on the chat request,
\* `compactScripts` those it may play on the compactor's request.  The
\* requests made are kept in `requests`: the outcome of the compactor, and
\* for the chat request the messages sent, the total usage at that time and
\* whether its stream yielded ERROR.  The model stops calling tools once
\* its context holds `maxCalls` tool calls.
LLMTurnWithin(scripts, compactScripts, maxCalls) ==
  /\ pc = "llm"
  /\ turnNum < maxTurns
  /\ Resumed
  /\ LET compacting == needsCompression(latestUsage, contextWindow)
     IN  \E cs \in (IF compacting THEN compactScripts ELSE {NoScript}) :
           LET summary == IF compacting THEN compress(messages, cs) ELSE Null
               msgs1 == IF summary # Null THEN replaceWithSummary(summary[1].summary)
                        ELSE messages
               latest1 == IF summary # Null THEN summary[1].usage ELSE latestUsage
               total1 == IF summary # Null THEN add(totalUsage, summary[1].usage)
                         ELSE totalUsage
               compacted == IF compacting
                              THEN <<[kind |-> "compress", script |-> cs,
                                      result |-> summary]>>
                              ELSE <<>>
           IN  \E script \in scripts :
                 LET stream == chatCompletion(script, TRUE).events
                     asked == [kind |-> "chat", messages |-> getMessages(msgs1),
                               totalUsage |-> total1,
                               streamError |-> \E k \in DOMAIN stream :
                                                stream[k].type = "error"]
                     r == StreamFold(stream,
                                     [responseText |-> "", toolCalls |-> <<>>,
                                      usage |-> Null, yielded |-> <<>>])
                     msgs2 == addAssistantMessage(msgs1, Some(r.responseText),
                                                  WireToolCalls(r.toolCalls))
                     said == r.responseText # ""
                 IN  /\ Len(r.toolCalls) <= maxCalls - CallsMade(msgs1)
                     /\ requests' = requests \o compacted \o <<asked>>
                     /\ agentEvents' = agentEvents \o r.yielded
                                  \o (IF said THEN <<textComplete(r.responseText)>>
                                      ELSE <<>>)
                     /\ history' = IF said
                                     THEN recordAction(history,
                                                       <<"response", r.responseText>>)
                                     ELSE history
                     /\ toolCalls' = r.toolCalls
                     /\ tci' = 1
                     /\ toolCallResults' = <<>>
                     /\ turnUsage' = r.usage
                     /\ IF Len(r.toolCalls) = 0
                          THEN /\ latestUsage' = setLatestUsage(latest1, r.usage)
                               /\ totalUsage' = addUsage(total1, r.usage)
                               /\ messages' = pruneToolOutputs(msgs2)
                               /\ pc' = "finishing"
                          ELSE /\ latestUsage' = latest1
                               /\ totalUsage' = total1
                               /\ messages' = msgs2
                               /\ pc' = "tools"
  /\ turnCount' = turnCount + 1
  /\ UNCHANGED <<avars, cvars, mvars, config, turnNum, inv, subagent, configApproval,
                 sessionFile, hooks, loopDetection, dvars>>

\* A turn of a model that makes at most MaxCalls tool calls.
LLMTurn(scripts, compactScripts) == LLMTurnWithin(scripts, compactScripts, MaxCalls)

\* The loop ran maxTurns turns: AGENT_ERROR "Maximum turns (N) reached".
MaxTurnsReached ==
  /\ pc = "llm"
  /\ turnNum >= maxTurns
  /\ Resumed
  /\ agentEvents' = Append(agentEvents, agentError("Maximum turns (" \o ToString(maxTurns)
                                         \o ") reached"))
  /\ pc' = "finishing"
  /\ UNCHANGED <<avars, xvars, cvars, mvars, config, turnNum, messages, toolCalls, tci,
                 toolCallResults, inv, turnUsage, latestUsage, totalUsage, history,
                 requests, subagent>>

\* agenticLoop is over: Agent.run triggers the afterAgent hook and yields
\* AGENT_END with the final response.
AgentEndUnder(hookSystem) ==
  /\ pc = "finishing"
  /\ Resumed
  /\ IF trigger(hookSystem, AFTER_AGENT)
       THEN /\ pc' = "thrown"
            /\ UNCHANGED agentEvents
       ELSE /\ agentEvents' = Append(agentEvents,
                                     agentEnd(finalResponseOf(agentEvents)))
            /\ pc' = "ended"
  /\ UNCHANGED <<avars, xvars, cvars, mvars, config, turnNum, messages, toolCalls, tci,
                 toolCallResults, inv, turnUsage, latestUsage, totalUsage, history,
                 requests, subagent>>

\* The end of Agent.run with the hook system of the session.
AgentEnd == AgentEndUnder(hooks)

\* The head of one iteration of the loop over the turn's tool calls:
\* TOOL_CALL_START is yielded and the call is recorded by the loop detector.
ToolCallStart ==
  /\ pc = "tools"
  /\ tci <= Len(toolCalls)
  /\ Resumed
  /\ LET toolCall == toolCalls[tci]
     IN  /\ agentEvents' = Append(agentEvents, toolCallStart(toolCall.callId, toolCall.name,
                                                   toolCall.args))
         /\ history' = recordAction(history,
                                    <<"tool_call", toolCall.name, toolCall.args>>)
  /\ pc' = "invoke"
  /\ UNCHANGED <<avars, xvars, cvars, mvars, config, turnNum, messages, toolCalls, tci,
                 toolCallResults, inv, turnUsage, latestUsage, totalUsage, requests, subagent>>

\* The end of a turn with tool calls (lines 161-179): the results are added to
\* the context, a detected loop adds the loop-breaker prompt, and old tool
\* outputs are pruned.
EndOfTurn(msgs, results) ==
  LET withResults == addToolResults(msgs, results)
      loopDetectionError == checkForLoop(history)
  IN  pruneToolOutputs(IF loopDetectionError # Null
                         THEN addUserMessage(withResults,
                                createLoopBreakerPrompt(loopDetectionError[1]))
                         ELSE withResults)

\* The rest of the iteration: the call is handed to ToolRegistry.invoke, its
\* result is yielded as TOOL_CALL_COMPLETE and kept; after the last call
\* the turn ends.  An exception raised by invoke leaves agenticLoop and
\* Agent.run.
InvokeToolCallUnder(hookSystem) ==
  /\ pc = "invoke"
  /\ Resumed
  /\ \E r \in { invoke(toolCalls[tci].name, toolCalls[tci].args, ConfigCwd, hookSystem,
                         TRUE, env) : env \in Envs } :
       LET toolCall == toolCalls[tci]
       IN  /\ inv' = [name |-> toolCall.name, params |-> toolCall.args,
                      events |-> r.events, outcome |-> r.outcome]
           /\ IF r.outcome.t = "throw"
                THEN /\ pc' = "thrown"
                     /\ UNCHANGED <<turnNum, messages, tci, toolCallResults, agentEvents,
                                    latestUsage, totalUsage>>
                ELSE LET results == Append(toolCallResults,
                                      [toolCallId |-> toolCall.callId,
                                       content |-> toModelOutput(r.outcome.result),
                                       isError |-> ~r.outcome.result.success])
                     IN  /\ agentEvents' = Append(agentEvents,
                                        toolCallComplete(toolCall.callId, toolCall.name,
                                                         r.outcome.result))
                         /\ toolCallResults' = results
                         /\ tci' = tci + 1
                         /\ IF tci = Len(toolCalls)
                              THEN /\ messages' = EndOfTurn(messages, results)
                                   /\ latestUsage' = setLatestUsage(latestUsage, turnUsage)
                                   /\ totalUsage' = addUsage(totalUsage, turnUsage)
                                   /\ turnNum' = turnNum + 1
                                   /\ pc' = "llm"
                              ELSE /\ pc' = "tools"
                                   /\ UNCHANGED <<messages, turnNum, latestUsage,
                                                  totalUsage>>
  /\ UNCHANGED <<avars, xvars, cvars, mvars, config, toolCalls, turnUsage, history, requests,
                 subagent>>

\* The rest of the iteration with the hook system of the session.
InvokeToolCall == InvokeToolCallUnder(hooks)

ContextWindow == 10

ZeroUsage == TokenUsage(0, 0, 0, 0)

ApprovalIdle ==
  /\ apolicy = ON_REQUEST
  /\ acwd = HomeU
  /\ actx = [toolName |-> "tool", isMutating |-> FALSE, affectedPaths |-> <<>>,
             command |-> Null, isDangerous |-> FALSE]
  /\ adecision = "none"

ClientIdle ==
  /\ cscript = NoScript
  /\ cstream = TRUE
  /\ cout = Null

\* A session that was just constructed from the config, with no hooks
\* configured, no tool directory and no session file.
XIdle ==
  /\ turnCount = 0
  /\ configApproval = approvalPolicy
  /\ sessionFile = Null
  /\ hooks = <<>>
  /\ loopDetection = Null
  /\ toolDir = [file \in {} |-> Null]
  /\ discoveredTools = {}
  /\ discoveredFiles = {}

\* new Session(config): the context is empty and nothing has run.
NewSession ==
  /\ maxTurns = MaxTurns
  /\ contextWindow = ContextWindow
  /\ tools = DefaultTools
  /\ pc = "idle"
  /\ turnNum = 0
  /\ messages = <<>>
  /\ toolCalls = <<>>
  /\ tci = 1
  /\ toolCallResults = <<>>
  /\ inv = NoInvoke
  /\ agentEvents = <<>>
  /\ turnUsage = Null
  /\ latestUsage = ZeroUsage
  /\ totalUsage = ZeroUsage
  /\ history = <<>>
  /\ requests = <<>>

\* new Agent(config, confirmationCallback?) followed by agent.initialize()
Init ==
  /\ ApprovalIdle
  /\ ClientIdle
  /\ McpIdle
  /\ approvalPolicy \in ApprovalPolicy
  /\ confirmationCallback \in BOOLEAN
  /\ allowedTools \in {Null, Some({"read_file"})}
  /\ NewSession
  /\ subagent = NoSubagent
  /\ XIdle

Next ==
  \/ Run
  \/ LLMTurn(ChatScripts(turnNum + 1), {NoScript})
  \/ MaxTurnsReached
  \/ AgentEnd
  \/ ToolCallStart
  \/ InvokeToolCall

Spec == Init /\ [][Next]_vars

SessionIdle ==
  /\ approvalPolicy = ON_REQUEST
  /\ confirmationCallback = FALSE
  /\ allowedTools = Null
  /\ NewSession
  /\ subagent = NoSubagent

InitApproval ==
  /\ apolicy \in ApprovalPolicy
  /\ acwd \in {HomeU, Root}
  /\ actx \in ApprovalContext
  /\ adecision = "none"
  /\ ClientIdle
  /\ McpIdle
  /\ SessionIdle
  /\ XIdle

\* ApprovalManager.checkApproval(context)
CheckApproval ==
  /\ adecision = "none"
  /\ adecision' = checkApproval(apolicy, acwd, actx)
  /\ UNCHANGED <<apolicy, acwd, actx, xvars, cvars, mvars, svars>>

NextApproval == CheckApproval

SpecApproval == InitApproval /\ [][NextApproval]_vars

(*************************************************************************)
(* The turn loop with usage reports, failing requests and compaction     *)
(* (SpecLoop): one session under policy on-request with a confirmation   *)
(* callback, whose model reads and edits a file.                         *)
(*************************************************************************)
LoopCallChoices ==
  { [name |-> "read_file", args |-> [path |-> "a.txt"]],
    [name |-> "edit", args |-> [path |-> "a.txt", newString |-> "x"]] }

\* The usage totals the API reports: none, the largest total that needs no
\* compaction, and the smallest one that needs it.
LoopUsages ==
  { Null, Some(UsageOf((8 * ContextWindow) \div 10)),
    Some(UsageOf((8 * ContextWindow) \div 10 + 1)) }

\* A request fails at once, fails after all retries, or succeeds on a retry.
FailingScripts ==
  { <<ServerError("o")>>,
    <<RateLimit(""), ConnectionError(""), RateLimit(""), RateLimit("")>>,
    <<ConnectionError("o"), Answer("ok", <<>>, Null)>> }

LoopScripts(turn) ==
  { <<a>> : a \in Answers(turn, LoopCallChoices, MaxCalls, LoopUsages) }
  \cup FailingScripts

\* The compactor's request is answered with a summary and usage, with a
\* summary and no usage, with no text, or it fails.
CompactScripts ==
  { <<Answer("S", <<>>, Some(UsageOf(3)))>>,
    <<Answer("S", <<>>, Null)>>,
    <<Answer("", <<>>, Some(UsageOf(3)))>>,
    <<ServerError("")>> }

InitLoop ==
  /\ ApprovalIdle
  /\ ClientIdle
  /\ McpIdle
  /\ approvalPolicy = ON_REQUEST
  /\ confirmationCallback = TRUE
  /\ allowedTools = Null
  /\ NewSession
  /\ subagent = NoSubagent
  /\ XIdle

NextLoop ==
  \/ Run
  \/ LLMTurn(LoopScripts(turnNum + 1), CompactScripts)
  \/ MaxTurnsReached
  \/ AgentEnd
  \/ ToolCallStart
  \/ InvokeToolCall

SpecLoop == InitLoop /\ [][NextLoop]_vars

(*************************************************************************)
(* LLMClient.chatCompletion on its own (SpecClient).                     *)
(*************************************************************************)
ClientCalls ==
  << ToolCall(<<1, 1>>, "read_file", [path |-> "a.txt"]),
     ToolCall(<<1, 2>>, "shell", [command |-> "ls -la"]) >>

AttemptOutcomes ==
  { Answer("", <<>>, Null),
    Answer("ok", SubSeq(ClientCalls, 1, 1), Some(UsageOf(5))),
    Answer("ok", ClientCalls, Null),
    RateLimit(""), RateLimit("o"), ConnectionError(""), ConnectionError("o"),
    ServerError(""), ServerError("o") }

\* One outcome for each attempt chatCompletion can make.
ClientScripts == [1..(maxRetries + 1) -> AttemptOutcomes]

InitClient ==
  /\ ApprovalIdle
  /\ McpIdle
  /\ SessionIdle
  /\ cscript \in ClientScripts
  /\ cstream \in BOOLEAN
  /\ cout = Null
  /\ XIdle

\* One call of LLMClient.chatCompletion(messages, tools, stream), consumed
\* to its end.
ChatCompletion ==
  /\ cout = Null
  /\ cout' = Some(chatCompletion(cscript, cstream))
  /\ UNCHANGED <<avars, xvars, mvars, svars, cscript, cstream>>

NextClient == ChatCompletion

SpecClient == InitClient /\ [][NextClient]_vars


(*************************************************************************)
(* SubagentTool.execute (tools/subagents.ts) running a child agent       *)
(* (SpecSubagent).  The session variables are those of the child; the    *)
(* variable subagent holds the locals of execute.                        *)
(*************************************************************************)
\* maxTurns of a sub-agent whose definition gives none.
DefaultSubagentMaxTurns == 20

\* definition.maxTurns || 20: an absent maxTurns and 0 are both falsy.
SubagentMaxTurns(definition) ==
  IF definition.maxTurns = Null \/ definition.maxTurns[1] = 0
    THEN DefaultSubagentMaxTurns
    ELSE definition.maxTurns[1]

SubagentDefinitions ==
  [ name : {"helper"},
    allowedTools : {Null, Some({"read_file"})},
    maxTurns : {Null, Some(0), Some(1), Some(2)} ]

Goals == {"", "find it"}

\* The locals of execute before its first statement.
NewSubagent(definition, goal) ==
  [ active |-> TRUE, definition |-> definition, goal |-> goal, state |-> "new",
    consumed |-> 0, toolCalls |-> <<>>, finalResponse |-> Null, error |-> Null,
    terminateResponse |-> "goal", result |-> Null,
    created |-> FALSE, initialized |-> FALSE, closes |-> 0 ]

\* The exception of a Session.initialize that fails.
InitializeError == "Error: initialize failed"

\* The `finally` of the loop over the child's events: agent.close() is
\* awaited when the loop was left, by its end, a break or an exception.
closeWhenLeft(s) == IF s.state = "done" THEN [s EXCEPT !.closes = @ + 1] ELSE s

\* The text execute returns.
SubagentResultText(s) ==
  "Sub-agent '" \o s.definition.name \o "' completed.\nTermination: "
  \o s.terminateResponse \o "\nTools called: "
  \o (IF Len(s.toolCalls) > 0 THEN JoinWith(s.toolCalls, ", ") ELSE "None")
  \o "\n\nResult:\n"
  \o (IF Truthy(s.finalResponse) THEN s.finalResponse[1] ELSE "No response")
  \o "\n"

\* execute up to the first event of the child: a call without goal returns
\* at once; else the child's config is made, the child agent is created
\* without a confirmation callback and initialized.  An exception of
\* agent.initialize() is raised before the inner try statement is entered
\* and is caught by the outer one.
SubagentExecute ==
  /\ subagent.active
  /\ subagent.state = "new"
  /\ IF subagent.goal = ""
       THEN /\ subagent' =
                 [subagent EXCEPT
                    !.state = "returned",
                    !.result = Some(errorResult("No goal specified for sub-agent",
                                                "", {}))]
            /\ UNCHANGED <<maxTurns, allowedTools, confirmationCallback>>
       ELSE /\ maxTurns' = SubagentMaxTurns(subagent.definition)
            /\ allowedTools' = IF subagent.definition.allowedTools # Null
                                 THEN subagent.definition.allowedTools
                                 ELSE allowedTools
            /\ confirmationCallback' = FALSE
            /\ \E ok \in BOOLEAN :
                 subagent' =
                   IF ok
                     THEN [subagent EXCEPT !.created = TRUE, !.initialized = TRUE,
                                           !.state = "running"]
                     ELSE [subagent EXCEPT
                             !.created = TRUE,
                             !.terminateResponse = "error",
                             !.error = Some(InitializeError),
                             !.finalResponse =
                               Some("Sub-agent failed: " \o InitializeError),
                             !.state = "done"]
  /\ UNCHANGED <<avars, xvars, cvars, mvars, approvalPolicy, contextWindow, tools, pc, turnNum,
                 messages, toolCalls, tci, toolCallResults, inv, agentEvents, turnUsage,
                 latestUsage, totalUsage, history, requests>>

\* One iteration of the loop over the child's events; `late` is
\* Date.now() > deadline.
SubagentEvent(s, event, late) ==
  IF late
    THEN [s EXCEPT !.terminateResponse = "timeout",
                   !.finalResponse = Some("Sub-agent timed out"),
                   !.state = "done"]
  ELSE CASE event.type = "tool_call_start" ->
              [s EXCEPT !.toolCalls = Append(@, event.name)]
         [] event.type = "text_complete" ->
              [s EXCEPT !.finalResponse = Some(event.content)]
         [] event.type = "agent_end" ->
              IF s.finalResponse = Null
                THEN [s EXCEPT !.finalResponse =
                        IF Truthy(event.response) THEN event.response ELSE Null]
                ELSE s
         [] event.type = "agent_error" ->
              LET error == IF event.error # "" THEN event.error ELSE "Unknown"
              IN  [s EXCEPT !.terminateResponse = "error",
                            !.error = Some(error),
                            !.finalResponse = Some("Sub-agent error: " \o error),
                            !.state = "done"]
         [] OTHER -> s

SubagentConsume ==
  /\ subagent.active
  /\ subagent.state = "running"
  /\ subagent.consumed < Len(agentEvents)
  /\ \E late \in BOOLEAN :
       subagent' = closeWhenLeft(SubagentEvent([subagent EXCEPT !.consumed = @ + 1],
                                               agentEvents[subagent.consumed + 1],
                                               late))
  /\ UNCHANGED <<avars, xvars, cvars, mvars, svars_session>>

\* The loop over the child's events ends: the run is over, or the exception
\* that left the run is caught.
SubagentLoopEnds ==
  /\ subagent.active
  /\ subagent.state = "running"
  /\ subagent.consumed = Len(agentEvents)
  /\ pc \in {"ended", "thrown"}
  /\ subagent' =
       closeWhenLeft(
         IF pc = "thrown"
           THEN LET e == "Error: " \o inv.outcome.error
                IN  [subagent EXCEPT !.terminateResponse = "error",
                                     !.error = Some(e),
                                     !.finalResponse = Some("Sub-agent failed: " \o e),
                                     !.state = "done"]
           ELSE [subagent EXCEPT !.state = "done"])
  /\ UNCHANGED <<avars, xvars, cvars, mvars, svars_session>>

\* The end of execute: the result is an error result iff error is set.
SubagentReturn ==
  /\ subagent.active
  /\ subagent.state = "done"
  /\ subagent' =
       [subagent EXCEPT
          !.state = "returned",
          !.result = Some(IF Truthy(subagent.error)
                            THEN errorResult(SubagentResultText(subagent), "", {})
                            ELSE successResult(SubagentResultText(subagent), {}))]
  /\ UNCHANGED <<avars, xvars, cvars, mvars, svars_session>>

\* What the child's model may answer: it reads or edits a file, or its
\* request fails.
SubagentScripts(turn) ==
  { <<a>> : a \in Answers(turn, LoopCallChoices, 1, {Null}) }
  \cup { <<ServerError("")>> }

InitSubagent ==
  /\ ApprovalIdle
  /\ ClientIdle
  /\ McpIdle
  /\ approvalPolicy = ON_REQUEST
  /\ confirmationCallback = TRUE
  /\ allowedTools = Null
  /\ NewSession
  /\ subagent \in { NewSubagent(d, g) : d \in SubagentDefinitions, g \in Goals }
  /\ XIdle

NextSubagent ==
  \/ SubagentExecute
  \/ SubagentConsume
  \/ SubagentLoopEnds
  \/ SubagentReturn
  \/ Run
  \/ LLMTurn(SubagentScripts(turnNum + 1), {NoScript})
  \/ MaxTurnsReached
  \/ AgentEnd
  \/ ToolCallStart
  \/ InvokeToolCall

SpecSubagent == InitSubagent /\ [][NextSubagent]_vars


(*************************************************************************)
(* MCP manager (tools/mcp/mcp_manager.ts) and MCP clients                *)
(* (tools/mcp/client.ts), initialised by Session.initialize (SpecMCP).   *)
(* Two servers are configured and enabled; every connect may succeed,    *)
(* fail, or outlast the startup timeout.                                 *)
(*************************************************************************)
\* config.mcpServers, in the order of the configuration.
ServerOrder == <<"alpha", "beta">>
Servers == { ServerOrder[k] : k \in DOMAIN ServerOrder }

\* The tools a server lists when a connect succeeds.
ServerTools(server) == IF server = "alpha" THEN {"search"} ELSE {"search", "fetch"}

DISCONNECTED == "disconnected"
CONNECTING == "connecting"
CONNECTED == "connected"
ERROR == "error"

\* The number of health sweeps that are started: the initial one and the
\* ticks of the timer.
MaxSweeps == 2

\* new MCPClient(name, serverConfig, cwd)
NewClient == [status |-> DISCONNECTED, tools |-> {}, disconnecting |-> FALSE]

\* Who awaits a connect call: a connection task of initialize, a health
\* sweep, or nobody (the startup timeout won the race).
TaskWaiter == <<"task">>
SweepWaiter(k) == <<"sweep", k>>
Nobody == <<>>

\* The name under which registerTools registers a tool of a server.
McpToolName(server, tool) == server \o "__" \o tool

\* The clients of the manager that are connected.
ConnectedClients(names, objects) == { n \in names : objects[n].status = CONNECTED }

\* registerTools that names a tool without its server.
registerTools_NoPrefix(registry, names, objects) ==
  LET new == UNION { objects[n].tools : n \in ConnectedClients(names, objects) }
  IN  [ t \in DOMAIN registry \cup new |-> IF t \in new THEN "MCPTool" ELSE registry[t] ]

\* MCPManager.registerTools(registry): registry.mcpTools afterwards, for the
\* clients `names` of the manager and the client objects `objects`.
registerTools(registry, names, objects) ==
  LET new == UNION { { McpToolName(n, t) : t \in objects[n].tools } :
                       n \in ConnectedClients(names, objects) }
  IN  [ t \in DOMAIN registry \cup new |-> IF t \in new THEN "MCPTool" ELSE registry[t] ]

RECURSIVE SweepFrom(_, _, _, _, _)
\* checkHealth from the client at position i on, up to its next await: the
\* status of a client that is neither disconnected nor in error is recorded;
\* for the others connect() is called (connect number `c`) and awaited.  The
\* iterator of the client map ends when the map has been cleared.
SweepFrom(i, names, objects, health, c) ==
  IF i > Len(ServerOrder) \/ ServerOrder[i] \notin names
    THEN [objects |-> objects, health |-> health, at |-> Len(ServerOrder) + 1,
          awaits |-> 0]
  ELSE LET n == ServerOrder[i]
       IN  IF objects[n].status \in {DISCONNECTED, ERROR}
             THEN [objects |-> [objects EXCEPT ![n].status = CONNECTING],
                   health |-> health, at |-> i, awaits |-> c]
             ELSE SweepFrom(i + 1, names, objects,
                            [m \in DOMAIN health \cup {n} |->
                               IF m = n THEN objects[n].status ELSE health[m]], c)

\* A sweep is started: what it does up to its first await.
StartSweep ==
  LET r == SweepFrom(1, clients, mcpClient, healthStatuses, Len(connects) + 1)
  IN  /\ mcpClient' = r.objects
      /\ healthStatuses' = r.health
      /\ sweeps' = Append(sweeps, [at |-> r.at, awaits |-> r.awaits])
      /\ connects' = IF r.awaits = 0 THEN connects
                     ELSE Append(connects, [server |-> ServerOrder[r.at],
                                            waiter |-> SweepWaiter(Len(sweeps) + 1),
                                            state |-> "open"])

\* MCPManager.initialize() up to its await of the connection tasks: a client
\* is created for each server and its connect() is called.
MCPInitialize ==
  /\ phase = "new"
  /\ ~initialized
  /\ clients' = Servers
  /\ mcpClient' = [n \in Servers |-> [NewClient EXCEPT !.status = CONNECTING]]
  /\ connectionTasks' = [n \in Servers |-> "waiting"]
  /\ connects' = [k \in DOMAIN ServerOrder |->
                    [server |-> ServerOrder[k], waiter |-> TaskWaiter, state |-> "open"]]
  /\ phase' = "initializing"
  /\ UNCHANGED <<avars, xvars, cvars, svars, mcpTools, initialized, healthCheckInterval,
                 healthStatuses, sweeps>>

\* The startup timeout of a connection task fires before its connect has
\* settled: the task logs the failure and settles; the connect goes on.
StartupTimeout ==
  \E n \in DOMAIN connectionTasks :
    /\ connectionTasks[n] = "waiting"
    /\ connectionTasks' = [connectionTasks EXCEPT ![n] = "settled"]
    /\ connects' = [k \in DOMAIN connects |->
                      IF connects[k].server = n /\ connects[k].waiter = TaskWaiter
                        THEN [connects[k] EXCEPT !.waiter = Nobody]
                        ELSE connects[k]]
    /\ UNCHANGED <<avars, xvars, cvars, svars, mcpTools, phase, clients, mcpClient, initialized,
                   healthCheckInterval, healthStatuses, sweeps>>

\* A connect call settles.  It succeeds (ok) only if the client was not
\* disconnected meanwhile: then the tools are listed and the status is
\* CONNECTED; else the status is ERROR and connect throws.  The code that
\* awaits the call goes on: a connection task settles; a sweep records the
\* status and continues with the next client.
ConnectSettles ==
  \E c \in DOMAIN connects : \E ok \in BOOLEAN :
    LET call == connects[c]
        n == call.server
        objects == [mcpClient EXCEPT
                      ![n].status = IF ok THEN CONNECTED ELSE ERROR,
                      ![n].tools = IF ok THEN @ \cup ServerTools(n) ELSE @]
        settled == [connects EXCEPT ![c].state = "settled"]
    IN  /\ call.state \in {"open", "closed"}
        /\ ok => call.state = "open"
        /\ IF call.waiter # Nobody /\ call.waiter # TaskWaiter
             THEN LET k == call.waiter[2]
                      health == [m \in DOMAIN healthStatuses \cup {n} |->
                                   IF m = n THEN objects[n].status
                                   ELSE healthStatuses[m]]
                      r == SweepFrom(sweeps[k].at + 1, clients, objects, health,
                                     Len(connects) + 1)
                  IN  /\ mcpClient' = r.objects
                      /\ healthStatuses' = r.health
                      /\ sweeps' = [sweeps EXCEPT ![k] = [at |-> r.at, awaits |-> r.awaits]]
                      /\ connects' = IF r.awaits = 0 THEN settled
                                     ELSE Append(settled,
                                                 [server |-> ServerOrder[r.at],
                                                  waiter |-> SweepWaiter(k),
                                                  state |-> "open"])
                      /\ UNCHANGED connectionTasks
             ELSE /\ mcpClient' = objects
                  /\ connects' = settled
                  /\ connectionTasks' = IF call.waiter = TaskWaiter
                                          THEN [connectionTasks EXCEPT ![n] = "settled"]
                                          ELSE connectionTasks
                  /\ UNCHANGED <<healthStatuses, sweeps>>
    /\ UNCHANGED <<avars, xvars, cvars, svars, mcpTools, phase, clients, initialized,
                   healthCheckInterval>>

\* All connection tasks have settled: initialize sets initialized, starts the
\* health check (the timer and the first sweep) and returns, and
\* Session.initialize registers the tools of the connected clients.
InitializeReturns ==
  /\ phase = "initializing"
  /\ \A n \in Servers : connectionTasks[n] = "settled"
  /\ initialized' = TRUE
  /\ healthCheckInterval' = TRUE
  /\ StartSweep
  /\ mcpTools' = registerTools(mcpTools, clients, mcpClient')
  /\ phase' = "ready"
  /\ UNCHANGED <<avars, xvars, cvars, svars, clients, connectionTasks>>

\* The health check timer ticks.
SweepTick ==
  /\ healthCheckInterval
  /\ Len(sweeps) < MaxSweeps
  /\ StartSweep
  /\ UNCHANGED <<avars, xvars, cvars, svars, mcpTools, phase, clients, connectionTasks,
                 initialized, healthCheckInterval>>

\* MCPManager.shutdown() up to its await of the disconnection tasks: the timer
\* is cleared and disconnect() is called on every client, which closes the
\* SDK client under the connects in flight.
ShutdownStart ==
  /\ phase = "ready"
  /\ healthCheckInterval' = FALSE
  /\ mcpClient' = [n \in Servers |->
                     IF n \in clients THEN [mcpClient[n] EXCEPT !.disconnecting = TRUE]
                     ELSE mcpClient[n]]
  /\ connects' = [k \in DOMAIN connects |->
                    IF connects[k].state = "open" /\ connects[k].server \in clients
                      THEN [connects[k] EXCEPT !.state = "closed"]
                      ELSE connects[k]]
  /\ phase' = "shuttingDown"
  /\ UNCHANGED <<avars, xvars, cvars, svars, mcpTools, clients, connectionTasks, initialized,
                 healthStatuses, sweeps>>

\* client.close() has returned: disconnect() drops the SDK client, clears
\* the tools and sets the status.
DisconnectDone ==
  \E n \in DOMAIN mcpClient :
    /\ mcpClient[n].disconnecting
    /\ mcpClient' = [mcpClient EXCEPT ![n] = [status |-> DISCONNECTED, tools |-> {},
                                             disconnecting |-> FALSE]]
    /\ connects' = [k \in DOMAIN connects |->
                      IF connects[k].state = "open" /\ connects[k].server = n
                        THEN [connects[k] EXCEPT !.state = "closed"]
                        ELSE connects[k]]
    /\ UNCHANGED <<avars, xvars, cvars, svars, mcpTools, phase, clients, connectionTasks,
                   initialized, healthCheckInterval, healthStatuses, sweeps>>

\* All disconnection tasks have settled: shutdown clears its maps and returns.
ShutdownFinish ==
  /\ phase = "shuttingDown"
  /\ \A n \in Servers : ~mcpClient[n].disconnecting
  /\ clients' = {}
  /\ healthStatuses' = << >>
  /\ initialized' = FALSE
  /\ phase' = "down"
  /\ UNCHANGED <<avars, xvars, cvars, svars, mcpTools, mcpClient, connectionTasks,
                 healthCheckInterval, sweeps, connects>>

InitMCP ==
  /\ ApprovalIdle
  /\ ClientIdle
  /\ SessionIdle
  /\ McpIdle
  /\ XIdle

NextMCP ==
  \/ MCPInitialize
  \/ StartupTimeout
  \/ ConnectSettles
  \/ InitializeReturns
  \/ SweepTick
  \/ ShutdownStart
  \/ DisconnectDone
  \/ ShutdownFinish

SpecMCP == InitMCP /\ [][NextMCP]_vars

\* Timers fire: a connection task that waits is settled by its startup
\* timeout at the latest, and initialize goes on when all tasks have settled.
FairSpecMCP == SpecMCP /\ WF_vars(StartupTimeout) /\ WF_vars(InitializeReturns)


(*************************************************************************)
(* The interactive session (main.ts): runInteractive reads a line at a   *)
(* time; a line that starts with "/" is a command, any other line is a   *)
(* message for Agent.run.  The session id and the dates of a session are *)
(* not modelled.                                                         *)
(*************************************************************************)
MaxRuns == 2

SessionSnapshot(turns, msgs, usage) ==
  [turnCount |-> turns, messages |-> msgs, totalUsage |-> usage]

\* SessionSnapshot.toDict(), which JSON.stringify writes to the session file:
\* the usage becomes a plain object, and the messages are the dictionaries
\* of strings and arrays getMessages() made.
SnapshotToDict(snapshot) ==
  [ turn_count |-> snapshot.turnCount,
    messages |-> snapshot.messages,
    total_usage |-> [ promptTokens |-> snapshot.totalUsage.promptTokens,
                      completionTokens |-> snapshot.totalUsage.completionTokens,
                      totalTokens |-> snapshot.totalUsage.totalTokens,
                      cachedTokens |-> snapshot.totalUsage.cachedTokens ] ]

\* SessionSnapshot.fromDict(data), on what JSON.parse read from the file.
SnapshotFromDict(data) ==
  SessionSnapshot(data.turn_count, data.messages,
                  TokenUsage(data.total_usage.promptTokens,
                             data.total_usage.completionTokens,
                             data.total_usage.totalTokens,
                             data.total_usage.cachedTokens))

\* msg.key || fallback for a key of a message dictionary.
KeyOr(msg, key, fallback) == IF key \in DOMAIN msg THEN msg[key] ELSE fallback

RECURSIVE RestoreMessages(_, _)
\* The loop of /resume and /restore over snapshot.messages: system messages
\* are skipped, every other message is added again by its role.
RestoreMessages(msgs, saved) ==
  IF Len(saved) = 0 THEN msgs
  ELSE LET msg == Head(saved)
           next ==
             CASE msg.role = "system" -> msgs
               [] msg.role = "user" -> addUserMessage(msgs, KeyOr(msg, "content", ""))
               [] msg.role = "assistant" ->
                    addAssistantMessage(msgs,
                      IF "content" \in DOMAIN msg THEN Some(msg.content) ELSE Null,
                      KeyOr(msg, "tool_calls", <<>>))
               [] msg.role = "tool" ->
                    addToolResult(msgs, KeyOr(msg, "tool_call_id", ""),
                                  KeyOr(msg, "content", ""))
               [] OTHER -> msgs
       IN  RestoreMessages(next, Tail(saved))

\* Session.getStats(), as far as the model goes.
getStats(turns, msgs) == [turn_count |-> turns, message_count |-> Len(msgs)]

\* The prompt is shown: no run is under way.
AtPrompt == pc = "idle"

\* "/save": the snapshot of the session is written to its session file.
SaveCommand ==
  /\ AtPrompt
  /\ sessionFile' = Some(SnapshotToDict(SessionSnapshot(turnCount, getMessages(messages),
                                                        totalUsage)))
  /\ UNCHANGED <<avars, cvars, mvars, svars, turnCount, configApproval, hooks, loopDetection, dvars>>

\* "/resume <id>" of a saved session: a new Session(config) is initialized,
\* filled from the snapshot and made the agent's session.  The new session
\* has its own approval manager, context manager and loop detector.
ResumeCommand ==
  /\ AtPrompt
  /\ sessionFile # Null
  /\ LET snapshot == SnapshotFromDict(sessionFile[1])
     IN  /\ turnCount' = snapshot.turnCount
         /\ totalUsage' = snapshot.totalUsage
         /\ messages' = RestoreMessages(<<>>, snapshot.messages)
  /\ approvalPolicy' = configApproval
  /\ confirmationCallback' = FALSE
  /\ tools' = DefaultTools
  /\ latestUsage' = ZeroUsage
  /\ history' = <<>>
  /\ UNCHANGED <<avars, cvars, mvars, allowedTools, maxTurns, contextWindow, pc, turnNum,
                 toolCalls, tci, toolCallResults, inv, agentEvents, turnUsage, requests,
                 subagent, configApproval, sessionFile, hooks, loopDetection, dvars>>

\* The policies the user asks for.
CommandPolicies == {ON_REQUEST, NEVER, YOLO}

\* "/approval <policy>": config.approval = cmdArgs.
ApprovalCommand ==
  /\ AtPrompt
  /\ \E policy \in CommandPolicies :
       /\ policy # configApproval
       /\ configApproval' = policy
  /\ UNCHANGED <<avars, cvars, mvars, svars, turnCount, sessionFile, hooks, loopDetection, dvars>>

\* processMessage returns after AGENT_END and the prompt is shown again; the
\* locals of the run are gone.
MessageDone ==
  /\ pc = "ended"
  /\ Cardinality({ i \in DOMAIN messages : messages[i].role = "user" }) < MaxRuns
  /\ pc' = "idle"
  /\ turnNum' = 0
  /\ toolCalls' = <<>>
  /\ tci' = 1
  /\ toolCallResults' = <<>>
  /\ inv' = NoInvoke
  /\ agentEvents' = <<>>
  /\ turnUsage' = Null
  /\ requests' = <<>>
  /\ UNCHANGED <<avars, xvars, cvars, mvars, config, messages, latestUsage, totalUsage,
                 history, subagent>>

\* What the model may call in the interactive session: a write outside the
\* cwd, which needs a confirmation, and a shell command that is neither safe
\* nor dangerous, on which the policies differ.
InteractiveCallChoices ==
  { [name |-> "write_file", args |-> [path |-> "/tmp/foo", content |-> "x"]],
    [name |-> "shell", args |-> [command |-> "make build"]] }

\* The model answers with a text, or with one tool call and no text.
InteractiveScripts(turn) ==
  { <<Answer("ok", <<>>, Null)>> }
  \cup { <<Answer("", <<ToolCall(<<turn, 1>>, c.name, c.args)>>, Null)>> :
           c \in InteractiveCallChoices }

\* runInteractive: new Agent(config, callback) and agent.initialize().
InitInteractive ==
  /\ ApprovalIdle
  /\ ClientIdle
  /\ McpIdle
  /\ approvalPolicy = ON_REQUEST
  /\ confirmationCallback = TRUE
  /\ allowedTools = Null
  /\ NewSession
  /\ subagent = NoSubagent
  /\ XIdle

NextInteractive ==
  \/ Run
  \/ LLMTurn(InteractiveScripts(turnNum + 1), {NoScript})
  \/ MaxTurnsReached
  \/ AgentEnd
  \/ ToolCallStart
  \/ InvokeToolCall
  \/ MessageDone
  \/ SaveCommand
  \/ ResumeCommand
  \/ ApprovalCommand

SpecInteractive == InitInteractive /\ [][NextInteractive]_vars

(*************************************************************************)
(* Tool discovery (ToolDiscoveryManager, ToolRegistry.register and       *)
(* unregisterDiscovered), checked under SpecDiscovery.  The tool         *)
(* directories of the cwd and of the config directory are one map from   *)
(* file name to what the file's module is; no MCP server is configured.  *)
(*************************************************************************)
endsWith(s, suffix) ==
  Len(s) >= Len(suffix) /\ SubSeq(s, Len(s) - Len(suffix) + 1, Len(s)) = suffix

\* The files the tool directory may hold, in the order readdirSync lists them.
ToolFiles == <<"__init.js", "fmt.js", "lint.ts", "notes.md">>

\* What a file may be: a module that fails to load, or a module that
\* exports the Tool subclasses `classes`, each named after its tool.
ToolModules ==
  { [loads |-> FALSE, classes |-> {}],
    [loads |-> TRUE, classes |-> {}],
    [loads |-> TRUE, classes |-> {"fmt"}],
    [loads |-> TRUE, classes |-> {"fmt", "lint"}] }

\* ToolRegistry.register(tool, isDiscovered) on the maps tools and
\* discoveredTools.
register(reg, name, cls, isDiscovered) ==
  [ tools |-> [ n \in DOMAIN reg.tools \cup {name} |->
                  IF n = name THEN cls ELSE reg.tools[n] ],
    discoveredTools |-> IF isDiscovered THEN reg.discoveredTools \cup {name}
                        ELSE reg.discoveredTools ]

\* ToolRegistry.unregisterDiscovered(name)
unregisterDiscovered(reg, name) ==
  IF name \in reg.discoveredTools
    THEN [ tools |-> [ n \in DOMAIN reg.tools \ {name} |-> reg.tools[n] ],
           discoveredTools |-> reg.discoveredTools \ {name} ]
    ELSE reg

\* The file filter of discoverFromDirectory.
IsToolFile(file) ==
  ~(startsWith(file, "__") \/ (~endsWith(file, ".ts") /\ ~endsWith(file, ".js")))

RECURSIVE RegisterClasses(_, _)
\* The loop over the tool classes of one module: this.registry.register(tool)
RegisterClasses(reg, classes) ==
  IF classes = {} THEN reg
  ELSE LET c == CHOOSE c \in classes : TRUE
       IN  RegisterClasses(register(reg, c, "DiscoveredTool", FALSE), classes \ {c})

RECURSIVE discoverFromDirectory(_, _, _)
\* ToolDiscoveryManager.discoverFromDirectory over the files `files` of the
\* directory `dir`; acc holds the registry and discoveredFiles.
discoverFromDirectory(files, dir, acc) ==
  IF Len(files) = 0 THEN acc
  ELSE LET file == Head(files)
           found == file \in DOMAIN dir /\ IsToolFile(file) /\ dir[file].loads
                    /\ dir[file].classes # {}
           next == IF found
                     THEN [ reg |-> RegisterClasses(acc.reg, dir[file].classes),
                            discoveredFiles |-> acc.discoveredFiles \cup {file} ]
                     ELSE acc
       IN  discoverFromDirectory(Tail(files), dir, next)

\* ToolDiscoveryManager.discoverAll()
discoverAll(reg, dir) ==
  discoverFromDirectory(ToolFiles, dir, [reg |-> reg, discoveredFiles |-> {}])

RECURSIVE UnregisterAll(_, _)
UnregisterAll(reg, names) ==
  IF names = {} THEN reg
  ELSE LET n == CHOOSE n \in names : TRUE
       IN  UnregisterAll(unregisterDiscovered(reg, n), names \ {n})

\* ToolDiscoveryManager.reload(): the tools of getDiscoveredTools() are
\* unregistered, then discoverAll() runs.
reload(reg, dir) == discoverAll(UnregisterAll(reg, reg.discoveredTools), dir)

Registry == [tools |-> tools, discoveredTools |-> discoveredTools]

\* Session.initialize() with no MCP server configured: the MCP manager is
\* initialized at once and the tool directories are searched.
SessionInitialize ==
  /\ phase = "new"
  /\ initialized' = TRUE
  /\ phase' = "ready"
  /\ LET found == discoverAll(Registry, toolDir)
     IN  /\ tools' = found.reg.tools
         /\ discoveredTools' = found.reg.discoveredTools
         /\ discoveredFiles' = found.discoveredFiles
  /\ UNCHANGED <<avars, cvars, mcpTools, clients, mcpClient, connectionTasks,
                 healthCheckInterval, healthStatuses, sweeps, connects, approvalPolicy,
                 confirmationCallback, allowedTools, maxTurns, contextWindow, pc, turnNum,
                 messages, toolCalls, tci, toolCallResults, inv, agentEvents, turnUsage,
                 latestUsage, totalUsage, history, requests, subagent, turnCount,
                 configApproval, sessionFile, hooks, loopDetection, toolDir>>

\* "/reload": Session.reloadTools() reloads the discovered tools and makes a
\* new ContextManager.
ReloadCommand ==
  /\ phase = "ready"
  /\ AtPrompt
  /\ LET found == reload(Registry, toolDir)
     IN  /\ tools' = found.reg.tools
         /\ discoveredTools' = found.reg.discoveredTools
         /\ discoveredFiles' = found.discoveredFiles
  /\ messages' = <<>>
  /\ latestUsage' = ZeroUsage
  /\ totalUsage' = ZeroUsage
  /\ UNCHANGED <<avars, cvars, mvars, approvalPolicy, confirmationCallback, allowedTools,
                 maxTurns, contextWindow, pc, turnNum, toolCalls, tci, toolCallResults, inv,
                 agentEvents, turnUsage, history, requests, subagent, turnCount,
                 configApproval, sessionFile, hooks, loopDetection, toolDir>>

\* The user writes a file to the tool directory, or replaces one.
WriteToolFile ==
  /\ \E file \in { ToolFiles[k] : k \in DOMAIN ToolFiles }, module \in ToolModules :
       /\ file \in DOMAIN toolDir => toolDir[file] # module
       /\ toolDir' = [ f \in DOMAIN toolDir \cup {file} |->
                         IF f = file THEN module ELSE toolDir[f] ]
  /\ UNCHANGED <<avars, cvars, mvars, svars, turnCount, configApproval, sessionFile, hooks, loopDetection,
                 discoveredTools, discoveredFiles>>

\* The user removes a file from the tool directory.
RemoveToolFile ==
  /\ \E file \in DOMAIN toolDir :
       toolDir' = [ f \in DOMAIN toolDir \ {file} |-> toolDir[f] ]
  /\ UNCHANGED <<avars, cvars, mvars, svars, turnCount, configApproval, sessionFile, hooks, loopDetection,
                 discoveredTools, discoveredFiles>>

InitDiscovery ==
  /\ ApprovalIdle
  /\ ClientIdle
  /\ McpIdle
  /\ SessionIdle
  /\ XIdle

NextDiscovery ==
  \/ SessionInitialize
  \/ ReloadCommand
  \/ WriteToolFile
  \/ RemoveToolFile

SpecDiscovery == InitDiscovery /\ [][NextDiscovery]_vars

(*************************************************************************)
(* Runs of an agent whose config enables hooks, checked under SpecHooks. *)
(* Every configured hook is one whose command fails, is killed by the    *)
(* timer or cannot be started, or whose script cannot be written.        *)
(*************************************************************************)
MaxHooks == 1

HookTriggers == {BEFORE_AGENT, AFTER_AGENT, BEFORE_TOOL, AFTER_TOOL}

\* The failing hooks a config may hold.
FailingHooks ==
  { h \in [trigger : HookTriggers, script : BOOLEAN, does : HookFates \ {"exits 0"}] :
      h.does = "cannot write script" => h.script }

RECURSIVE SeqsUpTo(_, _)
\* The sequences over `S` of length n or less.
SeqsUpTo(S, n) ==
  IF n = 0 THEN {<< >>}
  ELSE LET shorter == SeqsUpTo(S, n - 1)
       IN  shorter \cup { Append(q, x) : q \in { r \in shorter : Len(r) = n - 1 }, x \in S }

\* new HookSystem(config): the enabled hooks of a config with hooksEnabled.
HookSystems == SeqsUpTo(FailingHooks, MaxHooks)

\* The calls the model makes in its first turn: a tool that does not exist,
\* invalid parameters, a command the policy rejects, a write that needs
\* confirmation and a read that is approved; in later turns it reads again.
HookCallChoices(turn) ==
  IF turn > 1 THEN { [name |-> "read_file", args |-> [path |-> "a.txt"]] }
  ELSE { [name |-> "nope", args |-> [path |-> "a.txt"]],
         [name |-> "shell", args |-> [timeout |-> 5]],
         [name |-> "shell", args |-> [command |-> "rm -rf /"]],
         [name |-> "write_file", args |-> [path |-> "/tmp/foo", content |-> "x"]],
         [name |-> "read_file", args |-> [path |-> "a.txt"]] }

\* What the model answers: a text, or one tool call with no text.
HookScripts(turn) ==
  { <<Answer("ok", <<>>, Null)>> }
  \cup { <<Answer("", <<ToolCall(<<turn, 1>>, c.name, c.args)>>, Null)>> :
           c \in HookCallChoices(turn) }

InitHooks ==
  /\ ApprovalIdle
  /\ ClientIdle
  /\ McpIdle
  /\ approvalPolicy = ON_REQUEST
  /\ confirmationCallback = TRUE
  /\ allowedTools = Null
  /\ NewSession
  /\ subagent = NoSubagent
  /\ turnCount = 0
  /\ configApproval = approvalPolicy
  /\ sessionFile = Null
  /\ hooks \in HookSystems
  /\ loopDetection = Null
  /\ toolDir = [file \in {} |-> Null]
  /\ discoveredTools = {}
  /\ discoveredFiles = {}

NextHooks ==
  \/ Run
  \/ LLMTurn(HookScripts(turnNum + 1), {NoScript})
  \/ MaxTurnsReached
  \/ AgentEnd
  \/ ToolCallStart
  \/ InvokeToolCall

SpecHooks == InitHooks /\ [][NextHooks]_vars

(*************************************************************************)
(* The loop detector on its own (context/loop_detector.ts), checked      *)
(* under SpecDetector: actions are recorded in any order and the history *)
(* is checked at any time.                                               *)
(*************************************************************************)
\* The number of actions recorded is at most MaxRecorded.
MaxRecorded == 6

\* The actions recorded: two tool calls and a response.
Signatures ==
  { <<"tool_call", "grep", [pattern |-> "x"]>>,
    <<"tool_call", "read_file", [path |-> "a.txt"]>>,
    <<"response", "ok">> }

InitDetector ==
  /\ ApprovalIdle
  /\ ClientIdle
  /\ McpIdle
  /\ approvalPolicy = ON_REQUEST
  /\ confirmationCallback = TRUE
  /\ allowedTools = Null
  /\ NewSession
  /\ subagent = NoSubagent
  /\ XIdle

\* loopDetector.recordAction(actionType, details)
RecordAction(signature) ==
  /\ Len(history) < MaxRecorded
  /\ history' = recordAction(history, signature)
  /\ UNCHANGED <<avars, xvars, cvars, mvars, config, pc, turnNum, messages, toolCalls, tci,
                 toolCallResults, inv, agentEvents, turnUsage, latestUsage, totalUsage,
                 requests, subagent>>

\* loopDetector.checkForLoop()
CheckForLoop ==
  /\ loopDetection' = Some([history |-> history, result |-> checkForLoop(history)])
  /\ UNCHANGED <<avars, cvars, mvars, svars, turnCount, configApproval, sessionFile, hooks,
                 dvars>>

NextDetector ==
  \/ \E signature \in Signatures : RecordAction(signature)
  \/ CheckForLoop

SpecDetector == InitDetector /\ [][NextDetector]_vars

(*************************************************************************)
(* Runs long enough for the loop detector to act, checked under          *)
(* SpecRepeat: the model makes one tool call and says nothing in every   *)
(* turn, or it answers with a text, which ends the run.                  *)
(*************************************************************************)
\* config.maxTurns of these runs.
RepeatTurns == 4

RepeatCallChoices ==
  { [name |-> "shell", args |-> [command |-> "ls -la"]],
    [name |-> "shell", args |-> [command |-> "cat x"]] }

\* The usage totals the API reports: the largest total that needs no
\* compaction, and the smallest one that needs it.
RepeatUsages ==
  { Some(UsageOf((8 * ContextWindow) \div 10)),
    Some(UsageOf((8 * ContextWindow) \div 10 + 1)) }

RepeatScripts(turn) ==
  { <<Answer("ok", <<>>, Some(UsageOf((8 * ContextWindow) \div 10)))>> }
  \cup { <<Answer("", <<ToolCall(<<turn, 1>>, c.name, c.args)>>, u)>> :
           c \in RepeatCallChoices, u \in RepeatUsages }

\* The compactor's request is answered with a summary and usage, or it fails.
RepeatCompactScripts ==
  { <<Answer("S", <<>>, Some(UsageOf(3)))>>, <<ServerError("")>> }

InitRepeat ==
  /\ ApprovalIdle
  /\ ClientIdle
  /\ McpIdle
  /\ approvalPolicy = ON_REQUEST
  /\ confirmationCallback = TRUE
  /\ allowedTools = Null
  /\ maxTurns = RepeatTurns
  /\ contextWindow = ContextWindow
  /\ tools = DefaultTools
  /\ pc = "idle"
  /\ turnNum = 0
  /\ messages = <<>>
  /\ toolCalls = <<>>
  /\ tci = 1
  /\ toolCallResults = <<>>
  /\ inv = NoInvoke
  /\ agentEvents = <<>>
  /\ turnUsage = Null
  /\ latestUsage = ZeroUsage
  /\ totalUsage = ZeroUsage
  /\ history = <<>>
  /\ requests = <<>>
  /\ subagent = NoSubagent
  /\ XIdle

NextRepeat ==
  \/ Run
  \/ LLMTurnWithin(RepeatScripts(turnNum + 1), RepeatCompactScripts, RepeatTurns)
  \/ MaxTurnsReached
  \/ AgentEnd
  \/ ToolCallStart
  \/ InvokeToolCall

SpecRepeat == InitRepeat /\ [][NextRepeat]_vars

(*************************************************************************)
(* The context manager on its own, checked under SpecPrune: user         *)
(* messages and tool results are added to the context and old tool       *)
(* outputs are pruned at any time.  A context starts with the user's     *)
(* task, or as that of a long session of many short tool results.        *)
(*************************************************************************)
\* The context holds at most MaxToolMessages tool results, unless it is the
\* long one, and at most MaxUserMessages user messages.
MaxToolMessages == 8
MaxUserMessages == 2

\* The number of short tool results of the long context.
ManySmall == 2500

\* A tool result of 8 tokens.
SmallOutput == "File written successfully: a.txt"

ToolOutputs == {TenKOutput, "stdout"}

\* Two user messages, ManySmall short tool results and four large ones.
LongContext ==
  [ i \in 1..(ManySmall + 6) |->
      IF i <= 2 THEN MessageItem("user", "task", Null, <<>>)
      ELSE IF i <= ManySmall + 2
        THEN MessageItem("tool", SmallOutput, Some(<<i, 1>>), <<>>)
      ELSE MessageItem("tool", TenKOutput, Some(<<i, 1>>), <<>>) ]

ToolMessages(msgs) == { i \in DOMAIN msgs : msgs[i].role = "tool" }
UserMessages(msgs) == { i \in DOMAIN msgs : msgs[i].role = "user" }

InitPrune ==
  /\ ApprovalIdle
  /\ ClientIdle
  /\ McpIdle
  /\ approvalPolicy = ON_REQUEST
  /\ confirmationCallback = TRUE
  /\ allowedTools = Null
  /\ maxTurns = MaxTurns
  /\ contextWindow = ContextWindow
  /\ tools = DefaultTools
  /\ pc = "idle"
  /\ turnNum = 0
  /\ messages \in {addUserMessage(<<>>, "task"), LongContext}
  /\ toolCalls = <<>>
  /\ tci = 1
  /\ toolCallResults = <<>>
  /\ inv = NoInvoke
  /\ agentEvents = <<>>
  /\ turnUsage = Null
  /\ latestUsage = ZeroUsage
  /\ totalUsage = ZeroUsage
  /\ history = <<>>
  /\ requests = <<>>
  /\ subagent = NoSubagent
  /\ XIdle

\* contextManager.addUserMessage(content)
AddUserMessage ==
  /\ Cardinality(UserMessages(messages)) < MaxUserMessages
  /\ messages' = addUserMessage(messages, "more")
  /\ UNCHANGED <<avars, xvars, cvars, mvars, config, pc, turnNum, toolCalls, tci,
                 toolCallResults, inv, agentEvents, turnUsage, latestUsage, totalUsage,
                 history, requests, subagent>>

\* contextManager.addToolResult(toolCallId, content)
AddToolResult(content) ==
  /\ Cardinality(ToolMessages(messages)) < MaxToolMessages
  /\ messages' = addToolResult(messages, <<Len(messages), 1>>, content)
  /\ UNCHANGED <<avars, xvars, cvars, mvars, config, pc, turnNum, toolCalls, tci,
                 toolCallResults, inv, agentEvents, turnUsage, latestUsage, totalUsage,
                 history, requests, subagent>>

\* contextManager.pruneToolOutputs()
PruneToolOutputs ==
  /\ messages' = pruneToolOutputs(messages)
  /\ UNCHANGED <<avars, xvars, cvars, mvars, config, pc, turnNum, toolCalls, tci,
                 toolCallResults, inv, agentEvents, turnUsage, latestUsage, totalUsage,
                 history, requests, subagent>>

NextPrune ==
  \/ AddUserMessage
  \/ \E content \in ToolOutputs : AddToolResult(content)
  \/ PruneToolOutputs

SpecPrune == InitPrune /\ [][NextPrune]_vars

(*************************************************************************)
(* Claims about the approval engine, checked under SpecApproval.         *)
(*************************************************************************)
Decided == adecision # "none"

\* C3: under every policy, yolo included, checkApproval on a mutating
\* invocation whose command matches a dangerous pattern (`rm -rf /`) returns
\* REJECTED.
C3_DangerousRejectedUnderEveryPolicy ==
  (Decided /\ actx.isMutating /\ Truthy(actx.command)
     /\ isDangerousCommand(actx.command[1]))
    => adecision = REJECTED

\* C4: for every policy other than yolo, checkApproval never returns APPROVED
\* for a mutating invocation flagged isDangerous, with or without a command.
C4_DangerousFlagNeverApproved ==
  (Decided /\ apolicy # YOLO /\ actx.isMutating /\ actx.isDangerous)
    => adecision # APPROVED

EscapesCwd(cwd, path) == startsWith(relative(cwd, path), "..")

\* C5: for every policy, checkApproval on a mutating invocation with an
\* affected path outside cwd does not return APPROVED, with or without a
\* command.
C5_PathOutsideCwdNeverApproved ==
  (Decided /\ actx.isMutating
     /\ \E k \in 1..Len(actx.affectedPaths) : EscapesCwd(acwd, actx.affectedPaths[k]))
    => adecision # APPROVED

\* The decision table of claim C6, for a policy other than yolo.
C6_Table(policy, command) ==
  IF isDangerousCommand(command) THEN REJECTED
  ELSE CASE policy = NEVER ->
              IF isSafeCommand(command) THEN APPROVED ELSE REJECTED
         [] policy \in {AUTO, ON_FAILURE} -> APPROVED
         [] policy \in {AUTO_EDIT, ON_REQUEST} ->
              IF isSafeCommand(command) THEN APPROVED ELSE NEEDS_CONFIRMATION

\* C6: a non-mutating invocation is APPROVED under every policy; a mutating
\* invocation with a command (set and non-empty), no affected paths and
\* isDangerous false gets, for every policy other than yolo, the decision of
\* the table: dangerous pattern -> REJECTED; never -> APPROVED iff safe, else
\* REJECTED; auto, on-failure -> APPROVED; auto-edit, on-request -> APPROVED
\* iff safe, else NEEDS_CONFIRMATION.
C6_DecisionTable ==
  Decided =>
    /\ ~actx.isMutating => adecision = APPROVED
    /\ (actx.isMutating /\ Truthy(actx.command) /\ actx.affectedPaths = <<>>
          /\ ~actx.isDangerous /\ apolicy # YOLO)
         => adecision = C6_Table(apolicy, actx.command[1])


(*************************************************************************)
(* Claims about ToolRegistry.invoke and the turn loop, checked under     *)
(* Spec.  inv is the record of the last invoke of the run.               *)
(*************************************************************************)
Invoked == inv.outcome.t # "none"

EventsOf(k) == { i \in DOMAIN inv.events : inv.events[i].e = k }
Count(k) == Cardinality(EventsOf(k))
Decision(d) == \E i \in EventsOf("checkApproval") : inv.events[i].decision = d
Answered(b) == \E i \in EventsOf("confirmationCallback") : inv.events[i].answer = b
FailedWith(error) ==
  /\ inv.outcome.t = "result"
  /\ ~inv.outcome.result.success
  /\ inv.outcome.result.error = Some(error)

\* C1: when checkApproval returns REJECTED, execute is never called and invoke
\* returns a failure "Operation rejected by safety policy"; when it returns
\* NEEDS_CONFIRMATION and the registered callback answers false, execute is
\* never called and the failure is "User rejected the operation".
C1_RejectionNeverExecutes ==
  Invoked =>
    /\ Decision(REJECTED) =>
         Count("execute") = 0 /\ FailedWith("Operation rejected by safety policy")
    /\ (Decision(NEEDS_CONFIRMATION) /\ Answered(FALSE)) =>
         Count("execute") = 0 /\ FailedWith("User rejected the operation")

\* A turn whose first call was rejected by the policy and whose second call
\* was rejected by the user.
C1_Witness ==
  /\ Len(toolCallResults) = 2
  /\ toolCallResults[1].content
       = "Error: Operation rejected by safety policy\n\nOutput:\n"
  /\ toolCallResults[2].content = "Error: User rejected the operation\n\nOutput:\n"
  /\ Decision(NEEDS_CONFIRMATION)
  /\ Answered(FALSE)
  /\ Count("execute") = 0

\* C2: on NEEDS_CONFIRMATION invoke calls a registered callback exactly once,
\* before execute, and executes iff the callback answered true; with no
\* callback registered it asks nobody and executes.
C2_ConfirmationGate ==
  (Invoked /\ Decision(NEEDS_CONFIRMATION)) =>
    IF confirmationCallback
      THEN /\ Count("confirmationCallback") = 1
           /\ Count("execute") = (IF Answered(TRUE) THEN 1 ELSE 0)
           /\ \A i \in EventsOf("confirmationCallback"), j \in EventsOf("execute") : i < j
      ELSE /\ Count("confirmationCallback") = 0
           /\ Count("execute") = 1

\* The callback was asked, answered yes, and the tool ran and succeeded.
C2_Witness ==
  /\ Invoked
  /\ confirmationCallback
  /\ Decision(NEEDS_CONFIRMATION)
  /\ Answered(TRUE)
  /\ Count("execute") = 1
  /\ inv.outcome.t = "result"
  /\ inv.outcome.result.success

\* C7: every invoke triggers afterTool exactly once, as its last step, with the
\* result it returns, on every path.
C7_AfterToolExactlyOnce ==
  Invoked =>
    /\ Count("afterTool") = 1
    /\ inv.outcome.t = "result"
    /\ inv.events[Len(inv.events)]
         = AfterToolEv(inv.name, inv.params, inv.outcome.result)

PassedLookupAndValidation ==
  /\ get(inv.name) # Null
  /\ Len(validateParams(get(inv.name)[1], inv.params)) = 0

\* C8: beforeTool fires (once) iff lookup and validation succeeded; for such a
\* call beforeTool comes first, execute (if any) next, afterTool last, and
\* both hooks carry the name and arguments of the call.
C8_HookPairing ==
  Invoked =>
    /\ Count("beforeTool") = (IF PassedLookupAndValidation THEN 1 ELSE 0)
    /\ PassedLookupAndValidation =>
         /\ inv.events[1] = BeforeToolEv(inv.name, inv.params)
         /\ Count("afterTool") = 1
         /\ inv.events[Len(inv.events)].e = "afterTool"
         /\ inv.events[Len(inv.events)].name = inv.name
         /\ inv.events[Len(inv.events)].params = inv.params
         /\ \A j \in EventsOf("execute") : 1 < j /\ j < Len(inv.events)

\* C9: invoke never raises to the turn loop: an unknown tool, invalid
\* parameters and an exception while handling the tool each give a failure
\* result, and the run goes on.
C9_InvokeNeverThrows ==
  /\ pc # "thrown"
  /\ Invoked =>
       /\ inv.outcome.t = "result"
       /\ get(inv.name) = Null => FailedWith("Unknown tool: " \o inv.name)

\* C10: with an allowedTools allow-list configured, no tool outside the list
\* is executed.
C10_OnlyAllowedToolsExecute ==
  (Invoked /\ allowedTools # Null /\ Count("execute") > 0)
    => inv.name \in allowedTools[1]


(*************************************************************************)
(* Claims about the turn loop and the context (SpecLoop).                *)
(*************************************************************************)
\* The assistant messages of the context that carry tool-call records.
CallingTurns ==
  { i \in DOMAIN messages :
      messages[i].role = "assistant" /\ Len(messages[i].toolCalls) > 0 }

\* The turn of the assistant message at i is not completed: its tool calls
\* are being dispatched, or an exception left the loop while they were.
TurnOpen(i) == pc \in {"tools", "invoke", "thrown"} /\ i = Len(messages)

\* The messages after the assistant message at i are one tool result for each
\* of its records, with the ids of the records, and no tool result more.
ResultsPaired(i) ==
  LET records == messages[i].toolCalls
      n == Len(records)
  IN  /\ i + n <= Len(messages)
      /\ \A k \in 1..n : messages[i + k].role = "tool"
      /\ i + n < Len(messages) => messages[i + n + 1].role # "tool"
      /\ \E f \in [1..n -> 1..n] :
           /\ \A a, b \in 1..n : f[a] = f[b] => a = b
           /\ \A k \in 1..n : messages[i + k].toolCallId = Some(records[f[k]].id)

\* The tool message at j answers a record of an assistant message before it.
Answers_Record(j) ==
  \E i \in 1..(j - 1) :
    /\ messages[i].role = "assistant"
    /\ \E k \in 1..Len(messages[i].toolCalls) :
         messages[j].toolCallId = Some(messages[i].toolCalls[k].id)

\* C11: after every completed turn with tool calls the context holds, right
\* after the turn's assistant message, exactly one tool result per tool-call
\* record, with ids matching one-to-one; and at any time, whatever was
\* compacted or pruned, every tool message answers a record of a preceding
\* assistant message.
C11_ToolCallResultPairing ==
  /\ \A i \in CallingTurns : ~TurnOpen(i) => ResultsPaired(i)
  /\ \A j \in DOMAIN messages : messages[j].role = "tool" => Answers_Record(j)

\* A turn that followed a compaction made two calls, and the result of the
\* first was pruned at the end of the turn.
C11_Witness ==
  /\ pc = "llm"
  /\ Len(messages) = 6
  /\ messages[1].content = ContinuationContent("S")
  /\ Len(messages[4].toolCalls) = 2
  /\ messages[5].prunedAt
  /\ ~messages[6].prunedAt

\* The LLM requests of the run so far: one for each turn that was started.
ChatRequests == { k \in DOMAIN requests : requests[k].kind = "chat" }

EventsOfType(type) == { k \in DOMAIN agentEvents : agentEvents[k].type = type }

MaxTurnsError == agentError("Maximum turns (" \o ToString(maxTurns) \o ") reached")

\* Agent.run has nothing more to do: it returned, or an exception left it.
RunOver == pc \in {"ended", "thrown"}

\* The run makes at most maxTurns turns.
AtMostMaxTurns == Cardinality(ChatRequests) <= maxTurns

\* A run that is over has emitted AGENT_END once, as its last event.
EndsWithAgentEnd ==
  RunOver =>
    /\ Cardinality(EventsOfType("agent_end")) = 1
    /\ agentEvents[Len(agentEvents)].type = "agent_end"

\* A turn whose response has no tool calls is the last turn of the run.
StopsAtTextOnlyTurn ==
  (ChatRequests # {} /\ toolCalls = <<>>) =>
    (pc \in {"finishing", "ended"} /\ turnNum = Cardinality(ChatRequests) - 1)

\* "Maximum turns (N) reached" is emitted exactly when maxTurns turns were
\* made and each of them produced tool calls.
MaxTurnsErrorIffAllTurnsCalled ==
  /\ (\E k \in DOMAIN agentEvents : agentEvents[k] = MaxTurnsError)
       => (turnNum = maxTurns /\ Cardinality(ChatRequests) = maxTurns)
  /\ (pc = "ended" /\ turnNum = maxTurns)
       => Cardinality({ k \in DOMAIN agentEvents : agentEvents[k] = MaxTurnsError }) = 1

\* C12: every run makes at most maxTurns turns and ends with AGENT_END, once
\* and as its last event; it stops at the first turn without tool calls, and
\* emits "Maximum turns (N) reached" exactly when all maxTurns turns produced
\* tool calls.
C12_RunEndsWithAgentEnd ==
  /\ AtMostMaxTurns
  /\ EndsWithAgentEnd
  /\ StopsAtTextOnlyTurn
  /\ MaxTurnsErrorIffAllTurnsCalled

\* The LLM requests of the run whose stream yielded ERROR.
FailedRequests == { k \in ChatRequests : requests[k].streamError }

\* The AGENT_ERROR events that carry the error of a stream.
ApiErrors ==
  { k \in EventsOfType("agent_error") : startsWith(agentEvents[k].error, "API error: ") }

AgentEndEmitted ==
  /\ pc = "ended"
  /\ agentEvents[Len(agentEvents)].type = "agent_end"

\* After a request whose stream yielded ERROR: AGENT_ERROR was emitted with
\* the error, no tool call was dispatched after it, no request followed, and
\* the run is about to emit AGENT_END or has done so.
StreamErrorStopsRun ==
  \A k \in FailedRequests :
    /\ ApiErrors # {}
    /\ toolCalls = <<>>
    /\ \A e \in ApiErrors : \A j \in (e + 1)..Len(agentEvents) :
         agentEvents[j].type \notin {"tool_call_start", "tool_call_complete"}
    /\ k = Len(requests)
    /\ pc \in {"finishing", "ended"}
    /\ pc = "ended" => AgentEndEmitted

\* A session whose model reads a file or answers with text, and whose
\* requests may fail.
FailureScripts(turn) ==
  { <<a>> : a \in Answers(turn, {[name |-> "read_file", args |-> [path |-> "a.txt"]]},
                          1, {Null, Some(UsageOf(ContextWindow))}) }
  \cup FailingScripts

NextFailure ==
  \/ Run
  \/ LLMTurn(FailureScripts(turnNum + 1), CompactScripts)
  \/ MaxTurnsReached
  \/ AgentEnd
  \/ ToolCallStart
  \/ InvokeToolCall

\* The consumer of Agent.run takes its events to the end (for await), so the
\* generator is resumed after agenticLoop has returned: the afterAgent hooks
\* end (they run under a timeout) and AGENT_END is yielded.
FairSpecFailure == InitLoop /\ [][NextFailure]_vars /\ WF_vars(AgentEnd)

\* C13: when the LLM stream of a turn yields ERROR, the agent emits
\* AGENT_ERROR, dispatches no tool call for that turn, makes no further LLM
\* request in the run, and still emits AGENT_END.
C13_StreamErrorEndsRun ==
  /\ []StreamErrorStopsRun
  /\ (FailedRequests # {}) ~> AgentEndEmitted

\* The second request of a run failed after a partial text, and the run ended.
C13_Witness ==
  /\ AgentEndEmitted
  /\ Cardinality(ChatRequests) = 2
  /\ FailedRequests # {}
  /\ EventsOfType("text_complete") # {}

(*************************************************************************)
(* Claims about LLMClient.chatCompletion (SpecClient).                   *)
(*************************************************************************)
\* The attempt failed with a rate limit or a connection error.
Retryable(attempt) ==
  /\ attempt.t = "failure"
  /\ attempt.error.status = 429 \/ attempt.error.type = "connection_error"

\* The number of attempts of the script, from the first on, that fail with a
\* rate limit or a connection error.
LeadingRetryable ==
  CHOOSE n \in 0..Len(cscript) :
    /\ \A k \in 1..n : Retryable(cscript[k])
    /\ n < Len(cscript) => ~Retryable(cscript[n + 1])

StreamEventsOfType(type) ==
  { k \in DOMAIN cout[1].events : cout[1].events[k].type = type }

\* C14: chatCompletion retries only rate-limit and connection errors, at most
\* 3 times, after waits of 1 s, 2 s and 4 s; when the last attempt fails, or on
\* any other error, it yields exactly one ERROR, as its final event, and no
\* MESSAGE_COMPLETE; on success it yields exactly one MESSAGE_COMPLETE, as its
\* final event, after every TOOL_CALL_COMPLETE.
C14_RetryPolicy ==
  cout # Null =>
    LET out == cout[1]
        retries == Len(out.waits)
        final == cscript[retries + 1]
        last == out.events[Len(out.events)]
    IN  /\ retries = Min(maxRetries, LeadingRetryable)
        /\ out.waits = SubSeq(<<1, 2, 4>>, 1, retries)
        /\ Len(out.events) > 0
        /\ IF final.t = "failure"
             THEN /\ Cardinality(StreamEventsOfType("error")) = 1
                  /\ last.type = "error"
                  /\ StreamEventsOfType("message_complete") = {}
             ELSE /\ Cardinality(StreamEventsOfType("message_complete")) = 1
                  /\ last.type = "message_complete"
                  /\ StreamEventsOfType("error") = {}
                  /\ cstream =>
                       Cardinality(StreamEventsOfType("tool_call_complete"))
                         = Len(final.calls)

\* Four attempts were rate limited: three waits, then ERROR.
C14_Witness ==
  /\ cout # Null
  /\ cout[1].waits = <<1, 2, 4>>
  /\ cout[1].events[Len(cout[1].events)].type = "error"
  /\ \A k \in 1..(maxRetries + 1) : cscript[k].error.status = 429

(*************************************************************************)
(* Claims about compaction (SpecLoop).                                   *)
(*************************************************************************)
\* The requests a step adds to the log.
NewRequests == SubSeq(requests', Len(requests) + 1, Len(requests'))

\* The messages are the system prompt and the three-message stub made from
\* the summary S.
IsSummaryStub(msgs, S) ==
  /\ Len(msgs) = 4
  /\ [k \in 1..4 |-> msgs[k].role] = <<"system", "user", "assistant", "user">>
  /\ Includes(msgs[2].content, S)
  /\ msgs[3].content = AckContent
  /\ msgs[4].content = ContinueContent

\* What C15 says of one start of a turn.
CompactionAtStartOfTurn ==
  requests' # requests =>
    LET new == NewRequests
        chat == new[Len(new)]
        over == 10 * latestUsage.totalTokens > 8 * contextWindow
        invoked == new[1].kind = "compress"
    IN  /\ ~over => ~invoked
        /\ (over /\ invoked /\ new[1].result # Null) =>
             /\ IsSummaryStub(chat.messages, new[1].result[1].summary)
             /\ chat.totalUsage = add(totalUsage, new[1].result[1].usage)

\* C15: at the start of a turn, if latestUsage.total > 0.8 x contextWindow and
\* the compactor returns a summary S, the messages of the turn's LLM request
\* are exactly the three-message stub [user, assistant, user] whose first
\* message contains S, and totalUsage has grown by exactly the compactor's
\* usage; if latestUsage.total <= 0.8 x contextWindow the compactor is not
\* invoked in the turn.
C15_CompactionReplacesContext == [][CompactionAtStartOfTurn]_vars

\* The second turn of a run started with a compaction that returned "S".
C15_Witness ==
  /\ Len(requests) = 3
  /\ requests[2].kind = "compress"
  /\ requests[2].result # Null
  /\ requests[2].result[1].summary = "S"
  /\ Len(requests[3].messages) = 4
  /\ requests[3].totalUsage.totalTokens > requests[2].result[1].usage.totalTokens

(*************************************************************************)
(* Claims about sub-agents (SpecSubagent).                               *)
(*************************************************************************)
\* execute has returned the result of a child run.
SubagentReturned ==
  subagent.active /\ subagent.state = "returned" /\ subagent.goal # ""

\* C16: SubagentTool.execute returns a success result if and only if the
\* termination reason is "goal"; a run ended by the deadline, by AGENT_ERROR
\* or by an exception returns success = false with the termination reason in
\* its text.
C16_SuccessIffGoal ==
  SubagentReturned =>
    LET result == subagent.result[1]
    IN  /\ result.success <=> subagent.terminateResponse = "goal"
        /\ ~result.success =>
             Includes(result.error[1], "Termination: " \o subagent.terminateResponse)

\* The same for the runs that did not end by the deadline.
C16_ExceptTimeout ==
  (SubagentReturned /\ subagent.terminateResponse # "timeout") => C16_SuccessIffGoal

\* C17: a sub-agent whose definition sets maxTurns = n runs at most n LLM
\* turns, whatever the model outputs.
C17_SubagentAtMostMaxTurns ==
  (subagent.active /\ subagent.definition.maxTurns # Null) =>
    Cardinality(ChatRequests) <= subagent.definition.maxTurns[1]

\* The same for the definitions whose maxTurns is at least 1.
C17_PositiveMaxTurns ==
  (subagent.active /\ subagent.definition.maxTurns # Null
     /\ subagent.definition.maxTurns[1] >= 1) => C17_SubagentAtMostMaxTurns

(*************************************************************************)
(* Claims about the MCP manager (SpecMCP, FairSpecMCP).                  *)
(*************************************************************************)
\* The names under which the tools of a server are registered.
RegisteredNames(server) == { McpToolName(server, t) : t \in ServerTools(server) }

\* The registry holds every tool of each connected server under
\* <server>__<tool>, no tool of a server that is not connected, and nothing
\* else.
ConnectedServersRegistered ==
  /\ \A n \in Servers :
       IF mcpClient[n].status = CONNECTED
         THEN RegisteredNames(n) \subseteq DOMAIN mcpTools
         ELSE RegisteredNames(n) \cap DOMAIN mcpTools = {}
  /\ DOMAIN mcpTools \subseteq UNION { RegisteredNames(n) : n \in Servers }

\* Session.initialize has come back from MCPManager.initialize and has
\* registered the tools.
InitializeReturned == phase = "initializing" /\ phase' = "ready"

\* C18: MCPManager.initialize always completes, whether the connects succeed,
\* fail or do not settle within the startup timeout; when it has, every tool
\* of each connected server is registered as <server>__<tool>, and a server
\* whose connect failed or has not settled contributes no tool.
C18_InitializeCompletesAndRegisters ==
  /\ [][InitializeReturned => ConnectedServersRegistered']_vars
  /\ (phase = "initializing") ~> (phase = "ready" /\ initialized)

\* initialize has completed although the connect of alpha failed or timed
\* out; beta is connected and its tools are registered.
C18_Witness ==
  /\ phase = "ready"
  /\ initialized
  /\ mcpClient["alpha"].status # CONNECTED
  /\ mcpClient["beta"].status = CONNECTED
  /\ DOMAIN mcpTools = {"beta__search", "beta__fetch"}

\* After shutdown no health status is on record.
NoHealthStatusAfterShutdown == phase = "down" => healthStatuses = << >>

\* After shutdown no client is connected.
NoClientConnectedAfterShutdown ==
  phase = "down" => \A n \in DOMAIN mcpClient : mcpClient[n].status # CONNECTED

\* C19: after MCPManager.shutdown has returned the sweep timer is cancelled,
\* the client map and the health-status map are empty and stay so, and no
\* client is or becomes connected, even when a health sweep or a timed-out
\* initial connect was in flight when shutdown was called.
C19_ShutdownLeavesNothing ==
  /\ phase = "down" => (~healthCheckInterval /\ clients = {} /\ ~initialized)
  /\ NoHealthStatusAfterShutdown
  /\ NoClientConnectedAfterShutdown

\* No connect call and no health sweep is under way.
NothingInFlight ==
  /\ \A c \in DOMAIN connects : connects[c].state = "settled"
  /\ \A k \in DOMAIN sweeps : sweeps[k].awaits = 0

\* C20: whenever the connect of a server has succeeded, at startup, after its
\* startup timeout had expired, or through a reconnect of the health sweep,
\* the tools it advertises are available in the tool registry under
\* <server>__<tool> (at the latest when the manager has nothing in flight).
C20_ConnectedToolsAvailable ==
  (phase = "ready" /\ NothingInFlight) =>
    \A n \in clients :
      mcpClient[n].status = CONNECTED => RegisteredNames(n) \subseteq DOMAIN mcpTools


(*************************************************************************)
(* Claims about the interactive session (SpecInteractive).               *)
(*************************************************************************)
\* What C21 compares of a stored message: role, content, the assistant's
\* tool-call records and the tool_call_id (none is "").
ViewOfItem(item) ==
  [ role |-> item.role, content |-> item.content, toolCalls |-> item.toolCalls,
    toolCallId |-> IF Truthy(item.toolCallId) THEN item.toolCallId[1] ELSE "" ]

ViewOfMessages(msgs) == [ i \in 1..Len(msgs) |-> ViewOfItem(msgs[i]) ]

\* The same of the non-system messages of a session file.
ViewOfFile(file) ==
  LET saved == SelectSeq(file.messages, LAMBDA d : d.role # "system")
  IN  [ i \in 1..Len(saved) |->
          [ role |-> saved[i].role, content |-> KeyOr(saved[i], "content", ""),
            toolCalls |-> KeyOr(saved[i], "tool_calls", <<>>),
            toolCallId |-> KeyOr(saved[i], "tool_call_id", "") ] ]

\* A /save step writes a file that holds the session's messages and counts.
SaveKeepsSession ==
  SaveCommand =>
    /\ ViewOfFile(sessionFile'[1]) = ViewOfMessages(messages)
    /\ getStats(sessionFile'[1].turn_count, ViewOfFile(sessionFile'[1]))
         = getStats(turnCount, messages)

\* A /resume step makes a session that holds the file's messages and counts.
ResumeRestoresFile ==
  ResumeCommand =>
    /\ ViewOfMessages(messages') = ViewOfFile(sessionFile[1])
    /\ getStats(turnCount', messages')
         = getStats(sessionFile[1].turn_count, ViewOfFile(sessionFile[1]))

\* C21: saving a session and resuming it into a fresh session reconstructs
\* the same non-system messages in the same order, with the same roles,
\* contents, assistant tool-call records and tool_call_ids, and getStats() of
\* the resumed session reports the turn count and the message count of the
\* time of the save.
C21_SaveResumeRoundTrip == [][SaveKeepsSession /\ ResumeRestoresFile]_vars

\* A session was resumed from a file that holds a tool call with no text
\* and its result, and it is as the file says.
C21_Witness ==
  /\ AtPrompt
  /\ sessionFile # Null
  /\ ~confirmationCallback
  /\ turnCount = 2
  /\ \E i \in DOMAIN messages :
       /\ messages[i].role = "assistant"
       /\ messages[i].content = ""
       /\ Len(messages[i].toolCalls) = 1
       /\ i < Len(messages)
       /\ messages[i + 1].role = "tool"
       /\ messages[i + 1].toolCallId = Some(messages[i].toolCalls[1].id)
  /\ ViewOfMessages(messages) = ViewOfFile(sessionFile[1])
  /\ getStats(turnCount, messages).message_count = Len(sessionFile[1].messages) - 1

(*************************************************************************)
(* Claims about tool discovery (SpecDiscovery).                          *)
(*************************************************************************)
\* The tools the files of the tool directories define now.
ToolsOnDisk ==
  UNION { toolDir[f].classes : f \in { g \in DOMAIN toolDir : IsToolFile(g) /\ toolDir[g].loads } }

\* The tools of the registry that a discovery registered.
DiscoveredInRegistry == { n \in DOMAIN tools : tools[n] = "DiscoveredTool" }

\* C22: reload unregisters every tool a previous discovery registered before
\* it discovers again: after a reload the registry holds no discovered tool
\* whose file is no longer in the tool directories.
C22_ReloadDropsRemovedTools ==
  [][ReloadCommand => DiscoveredInRegistry' \subseteq ToolsOnDisk]_vars

\* After a reload, the discovered tools of the registry are those on disk
\* or those an earlier discovery registered.
C22_ReloadAddsOnly ==
  [][ReloadCommand => /\ ToolsOnDisk \subseteq DiscoveredInRegistry'
                      /\ DiscoveredInRegistry' = DiscoveredInRegistry \cup ToolsOnDisk]_vars

\* The decisions checkApproval can give on the call (name, params) under
\* `policy`, over what the file system may hold.
DecisionsUnder(policy, name, params) ==
  { checkApproval(policy, ConfigCwd,
                  approvalContext(get(name)[1], name, params,
                                  getConfirmation(get(name)[1], name, params, ConfigCwd, env))) :
      env \in { e \in Envs :
                  getConfirmation(get(name)[1], name, params, ConfigCwd, e).t
                    = "confirmation" } }

\* C23: after "/approval <policy>", the approval decision of every
\* subsequent tool invocation of the running session is the one the new
\* policy, which config.approval holds, gives.
C23_DecisionsFollowApprovalCommand ==
  Invoked =>
    \A i \in EventsOf("checkApproval") :
      inv.events[i].decision \in DecisionsUnder(configApproval, inv.name, inv.params)

\* The decisions are those of the policy the session was constructed with.
C23_DecisionsFollowSessionPolicy ==
  Invoked =>
    \A i \in EventsOf("checkApproval") :
      inv.events[i].decision \in DecisionsUnder(approvalPolicy, inv.name, inv.params)

\* The session the agent uses was made by /resume or /restore.
SessionReplaced == sessionFile # Null /\ ~confirmationCallback

\* C30: the confirmation callback given to the Agent stays in force for every
\* session the agent uses: also after /resume replaced the session, an
\* invocation classified NEEDS_CONFIRMATION asks the user, and it executes
\* only on a positive answer.
C30_CallbackSurvivesResume ==
  (Invoked /\ Decision(NEEDS_CONFIRMATION)) =>
    /\ Count("confirmationCallback") = 1
    /\ Count("execute") > 0 => Answered(TRUE)

\* The same of the sessions the Agent constructor made.
C30_CallbackInFirstSession ==
  (Invoked /\ Decision(NEEDS_CONFIRMATION) /\ ~SessionReplaced) =>
    /\ Count("confirmationCallback") = 1
    /\ Count("execute") > 0 => Answered(TRUE)
(*************************************************************************)
(* Claims about hooks, checked under SpecHooks.                          *)
(*************************************************************************)
\* Where the agent is about to invoke a tool, invoke returns the same result
\* after the same steps under the hook system of the session as under one
\* with no hook, whatever the environment.
InvokeUnaffectedByHooks ==
  pc = "invoke" =>
    \A env \in Envs :
      invoke(toolCalls[tci].name, toolCalls[tci].args, ConfigCwd, hooks, TRUE, env)
        = invoke(toolCalls[tci].name, toolCalls[tci].args, ConfigCwd, << >>, TRUE, env)

\* C24: a hook whose command fails, times out or cannot be started never
\* changes the outcome of the host operation: invoke returns the same tool
\* result, and every step of the agent run that triggers hooks (the start of
\* the run, the invocation of a tool, the end of the run) yields the same
\* events and leaves the same state, as it does with no hook configured.
C24_FailingHooksChangeNothing ==
  [][ /\ InvokeUnaffectedByHooks
      /\ Run => RunUnder(<< >>)
      /\ InvokeToolCall => InvokeToolCallUnder(<< >>)
      /\ AgentEnd => AgentEndUnder(<< >>) ]_vars

\* A run under a failing afterTool hook has ended with AGENT_END after a tool
\* was invoked and returned its result.
C24_Witness ==
  /\ Len(hooks) > 0
  /\ hooks[1].trigger = AFTER_TOOL
  /\ hooks[1].does = "exits 1"
  /\ pc = "ended"
  /\ inv # NoInvoke
  /\ inv.outcome.t = "result"
  /\ inv.outcome.result.success
  /\ agentEvents[Len(agentEvents)].type = "agent_end"

(*************************************************************************)
(* Claims about token accounting, checked under SpecLoop.                *)
(*************************************************************************)
UsageComponents == {"promptTokens", "completionTokens", "totalTokens", "cachedTokens"}

\* C25: every component of totalUsage (prompt, completion, total, cached) is
\* non-decreasing across a run: a step of the run leaves it alone or adds to
\* it the usage of the compactor, the usage of the turn, or both.
C25_TotalUsageNonDecreasing ==
  [][ /\ \A f \in UsageComponents : totalUsage'[f] >= totalUsage[f]
      /\ totalUsage' # totalUsage =>
           \E cu \in {ZeroUsage, UsageOf(3)}, tu \in {ZeroUsage} \cup
                { u[1] : u \in LoopUsages \ {Null} } :
             totalUsage' = add(add(totalUsage, cu), tu) ]_vars

\* The run was compacted after a turn had reported its usage, and a later
\* turn reported usage again: all three were added to totalUsage.
C25_Witness ==
  /\ \E i \in 1..Len(requests) :
       requests[i].kind = "compress" /\ requests[i].result # Null
  /\ totalUsage.totalTokens > 2 * 3 + (8 * ContextWindow) \div 10
  /\ totalUsage.cachedTokens >= 3
  /\ totalUsage.completionTokens >= 6

(*************************************************************************)
(* Claims about the loop detector, checked under SpecDetector.           *)
(*************************************************************************)
\* The last three signatures of `hist` are identical.
LastThreeIdentical(hist) ==
  /\ Len(hist) >= 3
  /\ hist[Len(hist)] = hist[Len(hist) - 1]
  /\ hist[Len(hist)] = hist[Len(hist) - 2]

\* `hist` ends with A B A B A B for two different signatures A and B.
EndsABABAB(hist) ==
  /\ Len(hist) >= 6
  /\ \E A, B \in Signatures :
       /\ A # B
       /\ SubSeq(hist, Len(hist) - 5, Len(hist)) = <<A, B, A, B, A, B>>

\* C27: checkForLoop returns "Same action repeated 3 times" whenever the last
\* three recorded signatures are identical, and "Detected repeating cycle of
\* length 2" for a recorded history that ends A B A B A B with A # B.
C27_CheckForLoopDetects ==
  loopDetection # Null =>
    LET checked == loopDetection[1]
    IN  /\ LastThreeIdentical(checked.history) =>
             checked.result = Some("Same action repeated 3 times")
        /\ EndsABABAB(checked.history) =>
             checked.result = Some("Detected repeating cycle of length 2")

\* A history of six identical actions, whose halves also repeat, was checked
\* and reported as a repetition.
C27_RepeatsChecked ==
  /\ loopDetection # Null
  /\ Len(loopDetection[1].history) = 6
  /\ \A k \in 1..6 : loopDetection[1].history[k] = loopDetection[1].history[1]
  /\ loopDetection[1].result = Some("Same action repeated 3 times")

\* A history ending A B A B A B was checked and reported as a cycle.
C27_Witness ==
  /\ loopDetection # Null
  /\ EndsABABAB(loopDetection[1].history)
  /\ loopDetection[1].result = Some("Detected repeating cycle of length 2")

(*************************************************************************)
(* Claims about loop breaking, checked under SpecRepeat, where turn k    *)
(* of a run records exactly one action, history[k].                      *)
(*************************************************************************)
\* The place in `requests` of the chat request of turn n.
RequestOfTurn(n) ==
  CHOOSE i \in ChatRequests : Cardinality({ j \in ChatRequests : j <= i }) = n

\* The loop-breaker message is among the messages of a request.
HasLoopBreaker(sent) ==
  \E i \in 1..Len(sent) :
    /\ sent[i].role = "user"
    /\ "content" \in DOMAIN sent[i]
    /\ sent[i].content = createLoopBreakerPrompt("Same action repeated 3 times")

\* The model emitted the same tool call in the turns k, k + 1 and k + 2.
SameCallInTurns(k) ==
  /\ Len(history) >= k + 2
  /\ history[k][1] = "tool_call"
  /\ history[k + 1] = history[k]
  /\ history[k + 2] = history[k]

\* C26: when the model emits the same tool call (same name and arguments, no
\* text) in three consecutive turns, the loop-breaker user message is among
\* the messages of the LLM request of the fourth turn.
C26_FourthRequestHasLoopBreaker ==
  \A k \in 1..RepeatTurns :
    SameCallInTurns(k) /\ Cardinality(ChatRequests) >= k + 3 =>
      HasLoopBreaker(requests[RequestOfTurn(k + 3)].messages)

\* After three turns with the same tool call, the turn that follows starts
\* with the loop-breaker as the last message of the context, and its request
\* holds the loop-breaker unless the context was compacted in between.
C26_LoopBreakerUnlessCompacted ==
  /\ \A k \in 1..RepeatTurns :
       SameCallInTurns(k) /\ pc = "llm" /\ turnNum = k + 2 =>
         /\ messages[Len(messages)].role = "user"
         /\ messages[Len(messages)].content
              = createLoopBreakerPrompt("Same action repeated 3 times")
  /\ \A k \in 1..RepeatTurns :
       SameCallInTurns(k) /\ Cardinality(ChatRequests) >= k + 3 =>
         \/ HasLoopBreaker(requests[RequestOfTurn(k + 3)].messages)
         \/ /\ requests[RequestOfTurn(k + 3) - 1].kind = "compress"
            /\ requests[RequestOfTurn(k + 3) - 1].result # Null

(*************************************************************************)
(* Claims about pruning, checked under SpecPrune.                        *)
(*************************************************************************)
RECURSIVE SumTokens(_, _, _, _)
\* The sum of the stored token counts of the messages lo..hi that are in S.
SumTokens(msgs, S, lo, hi) ==
  IF hi < lo THEN 0
  ELSE IF hi = lo THEN (IF lo \in S THEN msgs[lo].tokenCount ELSE 0)
  ELSE SumTokens(msgs, S, lo, (lo + hi) \div 2)
         + SumTokens(msgs, S, (lo + hi) \div 2 + 1, hi)

\* The tool messages the newest-first scan meets before a pruned one.
Scanned(msgs) ==
  LET pruned == { j \in ToolMessages(msgs) : msgs[j].prunedAt }
  IN  { i \in ToolMessages(msgs) : \A j \in pruned : j < i }

\* The tool messages at which the running token total exceeds 40,000.
BeyondTail(msgs) ==
  LET scanned == Scanned(msgs)
  IN  { i \in scanned : SumTokens(msgs, scanned, i, Len(msgs)) > 40000 }

\* The messages a pruneToolOutputs call cleared.
Cleared(before, after) ==
  { i \in DOMAIN before :
      /\ ~before[i].prunedAt
      /\ after[i].prunedAt
      /\ after[i].content = PrunedContent }

\* The context holds n tool messages, all unpruned and of 10,000 tokens.
TenKTranscript(msgs, n) ==
  /\ Cardinality(ToolMessages(msgs)) = n
  /\ \A i \in ToolMessages(msgs) : ~msgs[i].prunedAt /\ msgs[i].tokenCount = 10000

\* The n oldest tool messages.
Oldest(msgs, n) ==
  { i \in ToolMessages(msgs) :
      Cardinality({ j \in ToolMessages(msgs) : j <= i }) <= n }

\* What the claim says of a call of pruneToolOutputs on `before`.
PrunesByThreshold(before, after) ==
  /\ Len(after) = Len(before)
  /\ Cleared(before, after)
       = IF SumTokens(before, BeyondTail(before), 1, Len(before)) >= 20000
           THEN BeyondTail(before) ELSE {}
  /\ \A i \in DOMAIN before : i \notin Cleared(before, after) => after[i] = before[i]
  /\ \A n \in 7..MaxToolMessages :
       TenKTranscript(before, n) => Cleared(before, after) = Oldest(before, n - 4)

\* The contexts that were built message by message.
ShortContext == Cardinality(ToolMessages(messages)) <= MaxToolMessages

\* C28: pruneToolOutputs clears exactly the tool messages at which the
\* running token total of the newest-first scan exceeds 40,000, and it clears
\* them if and only if their combined tokens are at least 20,000; on any
\* transcript of N >= 7 unpruned tool messages of 10,000 tokens each it
\* clears exactly the N - 4 oldest.
C28_PrunesBeyondTail ==
  ShortContext => PrunesByThreshold(messages, pruneToolOutputs(messages))

\* The same holds of every context with two user messages or more.
C28_PrunesWithTwoUserMessages ==
  ShortContext /\ Cardinality(UserMessages(messages)) >= 2
    => PrunesByThreshold(messages, pruneToolOutputs(messages))

\* The sum of the stored token counts of a context.
StoredTokens(msgs) == SumTokens(msgs, DOMAIN msgs, 1, Len(msgs))

\* C29: a pruneToolOutputs call that prunes at least one message leaves the
\* number of messages unchanged and strictly decreases the sum of the stored
\* token counts of the messages.
C29_PruningDecreasesTokens ==
  LET after == pruneToolOutputs(messages)
  IN  Cleared(messages, after) # {} =>
        /\ Len(after) = Len(messages)
        /\ StoredTokens(after) < StoredTokens(messages)

\* A pruneToolOutputs call that prunes leaves the number of messages
\* unchanged, and it decreases the stored token count of every message it
\* clears that held more than 8 tokens.
C29_PruningKeepsMessageCount ==
  LET after == pruneToolOutputs(messages)
  IN  Cleared(messages, after) # {} =>
        /\ Len(after) = Len(messages)
        /\ \A i \in Cleared(messages, after) :
             /\ after[i].tokenCount = 8
             /\ messages[i].tokenCount > 8 => after[i].tokenCount < messages[i].tokenCount

(*************************************************************************)
(* Claims about the order of the steps of a turn, checked under Spec.    *)
(*************************************************************************)
\* The TOOL_CALL_START and TOOL_CALL_COMPLETE events of the run, in order.
ToolCallEvents ==
  SelectSeq(agentEvents,
            LAMBDA ev : ev.type \in {"tool_call_start", "tool_call_complete"})

\* The assistant message of the turn, with the records of all its tool
\* calls, is the last message of the context.
AssistantMessageInContext ==
  /\ Len(messages) > 0
  /\ messages[Len(messages)].role = "assistant"
  /\ messages[Len(messages)].toolCalls = WireToolCalls(toolCalls)

\* The steps of the last invoke are in the order beforeTool, execute,
\* afterTool.
HooksAroundExecute ==
  /\ \A i \in EventsOf("beforeTool"), j \in EventsOf("execute") : i < j
  /\ \A i \in EventsOf("execute"), j \in EventsOf("afterTool") : i < j
  /\ \A i \in EventsOf("beforeTool"), j \in EventsOf("afterTool") : i < j

\* C31: within a turn the tool calls are handled one at a time in the order
\* the model produced them.  When a call is invoked, the assistant message
\* with all tool-call records is in the context and the last event is the
\* TOOL_CALL_START of that call; the invoke runs beforeTool, execute and
\* afterTool in that order and TOOL_CALL_COMPLETE follows; each
\* TOOL_CALL_START but the first of a turn comes right after the
\* TOOL_CALL_COMPLETE of the call before it.
C31_CallsHandledInOrder ==
  /\ \A k \in 1..Len(ToolCallEvents) :
       LET ev == ToolCallEvents[k]
       IN  IF ev.type = "tool_call_start"
             THEN IF ev.call_id[2] = 1
                    THEN k > 1 => /\ ToolCallEvents[k - 1].type = "tool_call_complete"
                                  /\ ToolCallEvents[k - 1].call_id[1] < ev.call_id[1]
                    ELSE /\ k > 1
                         /\ ToolCallEvents[k - 1].type = "tool_call_complete"
                         /\ ToolCallEvents[k - 1].call_id
                              = <<ev.call_id[1], ev.call_id[2] - 1>>
             ELSE /\ k > 1
                  /\ ToolCallEvents[k - 1].type = "tool_call_start"
                  /\ ToolCallEvents[k - 1].call_id = ev.call_id
  /\ pc = "invoke" =>
       /\ AssistantMessageInContext
       /\ toolCalls[tci].callId[2] = tci
       /\ agentEvents[Len(agentEvents)]
            = toolCallStart(toolCalls[tci].callId, toolCalls[tci].name,
                            toolCalls[tci].args)
  /\ pc = "tools" /\ tci > 1 =>
       /\ AssistantMessageInContext
       /\ inv.name = toolCalls[tci - 1].name
       /\ inv.params = toolCalls[tci - 1].args
       /\ HooksAroundExecute
       /\ agentEvents[Len(agentEvents)]
            = toolCallComplete(toolCalls[tci - 1].callId, toolCalls[tci - 1].name,
                               inv.outcome.result)
  /\ Invoked => HooksAroundExecute

\* Both calls of a turn were handled: the second was started after the
\* first had completed, and it ran its hooks around execute.
C31_Witness ==
  /\ Len(ToolCallEvents) >= 4
  /\ ToolCallEvents[3].type = "tool_call_start"
  /\ ToolCallEvents[3].call_id = <<1, 2>>
  /\ ToolCallEvents[4].type = "tool_call_complete"
  /\ Count("beforeTool") = 1
  /\ Count("execute") = 1
  /\ Count("afterTool") = 1

(*************************************************************************)
(* Runs whose turns make one or two tool calls, checked under SpecBatch: *)
(* in every turn the model lists a directory once or twice and says      *)
(* nothing, or it answers with a text, which ends the run.               *)
(*************************************************************************)
\* The number of tool calls the model makes in a run at most.
BatchCalls == 4

BatchScripts(turn) ==
  LET ls(k) == ToolCall(<<turn, k>>, "shell", [command |-> "ls -la"])
      usage == Some(UsageOf((8 * ContextWindow) \div 10))
  IN  { <<Answer("ok", <<>>, usage)>>,
        <<Answer("", <<ls(1)>>, usage)>>,
        <<Answer("", <<ls(1), ls(2)>>, usage)>> }

NextBatch ==
  \/ Run
  \/ LLMTurnWithin(BatchScripts(turnNum + 1), {NoScript}, BatchCalls)
  \/ MaxTurnsReached
  \/ AgentEnd
  \/ ToolCallStart
  \/ InvokeToolCall

SpecBatch == InitRepeat /\ [][NextBatch]_vars

(*************************************************************************)
(* Claims about the messages a turn appends, checked under SpecBatch.    *)
(*************************************************************************)
\* The messages the tool calls of the turn and the loop detector add after
\* the assistant message: one tool result per call, in the order of the
\* calls, and the loop-breaker prompt when a loop was detected.
AppendedByTurn(results) ==
  [ k \in 1..Len(toolCalls) |->
      MessageItem("tool", results[k].content, Some(toolCalls[k].callId), <<>>) ]
    \o (IF checkForLoop(history) # Null
          THEN <<MessageItem("user",
                             createLoopBreakerPrompt(checkForLoop(history)[1]),
                             Null, <<>>)>>
          ELSE <<>>)

\* C32: a turn with tool calls appends the assistant message, then one tool
\* result per tool call in the order of the calls, then the loop-breaker
\* user message and only when a loop was detected; while the calls are
\* handled nothing is appended and no usage is recorded, and the turn's
\* usage is recorded and the pruning runs once all of them are appended.
C32_TurnAppendsInOrder ==
  [][ /\ pc \in {"tools", "invoke"} /\ pc' \in {"tools", "invoke"} =>
           /\ AssistantMessageInContext
           /\ UNCHANGED <<messages, latestUsage, totalUsage>>
      /\ pc = "invoke" /\ pc' = "llm" =>
           /\ AssistantMessageInContext
           /\ Len(toolCallResults') = Len(toolCalls)
           /\ messages' = pruneToolOutputs(messages \o AppendedByTurn(toolCallResults'))
           /\ Len(messages') = Len(messages) + Len(toolCalls)
                                 + (IF checkForLoop(history) # Null THEN 1 ELSE 0)
           /\ \A k \in 1..Len(toolCalls) :
                /\ messages'[Len(messages) + k].role = "tool"
                /\ messages'[Len(messages) + k].toolCallId = Some(toolCalls[k].callId)
           /\ latestUsage' = setLatestUsage(latestUsage, turnUsage)
           /\ totalUsage' = addUsage(totalUsage, turnUsage) ]_vars

\* The second turn made two calls and the loop detector fired at its end:
\* the context ends with the assistant message, the two results in the
\* order of the calls, and the loop-breaker prompt.
C32_Witness ==
  /\ pc = "llm"
  /\ turnNum = 2
  /\ Len(toolCalls) = 2
  /\ Len(messages) >= 4
  /\ messages[Len(messages) - 3].role = "assistant"
  /\ messages[Len(messages) - 2].toolCallId = Some(<<2, 1>>)
  /\ messages[Len(messages) - 1].toolCallId = Some(<<2, 2>>)
  /\ messages[Len(messages)].role = "user"
  /\ messages[Len(messages)].content
       = createLoopBreakerPrompt("Same action repeated 3 times")
  /\ totalUsage # ZeroUsage

(*************************************************************************)
(* Claims about the cycle search, checked under SpecDetector.            *)
(*************************************************************************)
\* The last 2 * len signatures are two identical halves of length len.
TwoIdenticalHalves(hist, len) ==
  /\ Len(hist) >= 2 * len
  /\ \A k \in 1..len :
       hist[Len(hist) - 2 * len + k] = hist[Len(hist) - len + k]

CycleMessage(len) == Some("Detected repeating cycle of length " \o ToString(len))

\* C33: for every recorded history, checkForLoop returns "Detected
\* repeating cycle of length L" when, for L = 2 or L = 3, the last 2L
\* signatures are two identical halves of length L and the last three
\* signatures are not all identical; it returns null when neither the
\* exact-repeat condition nor a cycle condition holds.
C33_CycleReported ==
  loopDetection # Null =>
    LET hist == loopDetection[1].history
        result == loopDetection[1].result
        cycles == { len \in 2..maxCycleLength : TwoIdenticalHalves(hist, len) }
    IN  /\ cycles # {} /\ ~LastThreeIdentical(hist) =>
             \E len \in cycles : result = CycleMessage(len)
        /\ cycles = {} /\ ~LastThreeIdentical(hist) => result = Null

\* What the search does: a cycle is reported for histories of at least
\* 2 * maxCycleLength signatures, and a shorter history that does not end in
\* three identical signatures is answered with null.
C33_CycleReportedFromSix ==
  loopDetection # Null =>
    LET hist == loopDetection[1].history
        result == loopDetection[1].result
        cycles == { len \in 2..maxCycleLength : TwoIdenticalHalves(hist, len) }
    IN  /\ cycles # {} /\ ~LastThreeIdentical(hist) /\ Len(hist) >= 2 * maxCycleLength =>
             \E len \in cycles : result = CycleMessage(len)
        /\ cycles = {} /\ ~LastThreeIdentical(hist) => result = Null
        /\ ~LastThreeIdentical(hist) /\ Len(hist) < 2 * maxCycleLength => result = Null

\* A history A B A B of four signatures was checked.
C33_ShortCycleChecked ==
  /\ loopDetection # Null
  /\ Len(loopDetection[1].history) = 4
  /\ TwoIdenticalHalves(loopDetection[1].history, 2)
  /\ ~LastThreeIdentical(loopDetection[1].history)
  /\ loopDetection[1].result = Null

(*************************************************************************)
(* Claims about a compaction that fails, checked under SpecLoop.         *)
(*************************************************************************)
\* The compactor's request fails, or it is answered with no text.
CompactorFails(script) ==
  /\ Len(script) > 0
  /\ \/ script[Len(script)].t = "failure"
     \/ script[Len(script)].t = "answer" /\ script[Len(script)].text = ""

\* The step is a turn whose compaction was triggered and whose compactor
\* failed or returned empty text.
CompactionFailedInStep ==
  /\ pc = "llm"
  /\ Len(requests') = Len(requests) + 2
  /\ requests'[Len(requests) + 1].kind = "compress"
  /\ CompactorFails(requests'[Len(requests) + 1].script)

\* C34: when compaction is triggered but the compactor fails or returns
\* empty text, the messages, latestUsage and totalUsage are left as they
\* were, and the turn goes on to the LLM request with the uncompacted
\* history: the request holds the messages of before, and what the turn
\* stores is its own assistant message and its own usage.
C34_FailedCompactionChangesNothing ==
  [][ CompactionFailedInStep =>
        /\ needsCompression(latestUsage, contextWindow)
        /\ requests'[Len(requests) + 2].kind = "chat"
        /\ requests'[Len(requests) + 2].messages = getMessages(messages)
        /\ requests'[Len(requests) + 2].totalUsage = totalUsage
        /\ Len(messages') = Len(messages) + 1
        /\ SubSeq(messages', 1, Len(messages)) = messages
        /\ messages'[Len(messages')].role = "assistant"
        /\ IF Len(toolCalls') = 0
             THEN /\ latestUsage' = setLatestUsage(latestUsage, turnUsage')
                  /\ totalUsage' = addUsage(totalUsage, turnUsage')
             ELSE /\ latestUsage' = latestUsage
                  /\ totalUsage' = totalUsage ]_vars

\* A compaction of a history of at least three messages gave no summary and
\* the request that followed it held that history.
C34_Witness ==
  \E i \in DOMAIN requests :
    /\ requests[i].kind = "compress"
    /\ requests[i].script = <<Answer("", <<>>, Some(UsageOf(3)))>>
    /\ i + 1 \in DOMAIN requests
    /\ requests[i + 1].kind = "chat"
    /\ Len(requests[i + 1].messages) >= 4
    /\ requests[i + 1].messages[2].role = "user"
    /\ requests[i + 1].messages[2].content # ContinuationContent("S")

(*************************************************************************)
(* Claims about the health sweep, checked under SpecMCP.                 *)
(*************************************************************************)
\* The positions of the clients that sweep k goes past in the step without
\* a connect attempt: a sweep stops at the client whose connect it awaits.
PassedWithoutConnect(k) ==
  { i \in DOMAIN ServerOrder :
      /\ ServerOrder[i] \in clients
      /\ i > (IF k \in DOMAIN sweeps THEN sweeps[k].at ELSE 0)
      /\ i < sweeps'[k].at }

\* The connect that sweep k awaited settles in the step: the status of its
\* client is recorded and the sweep goes on to the clients after it.
AttemptRecorded(k) ==
  (/\ k \in DOMAIN sweeps
   /\ sweeps[k].awaits # 0
   /\ connects'[sweeps[k].awaits].state = "settled"
   /\ connects[sweeps[k].awaits].state # "settled") =>
     LET n == ServerOrder[sweeps[k].at]
     IN  /\ n \in DOMAIN healthStatuses'
         /\ healthStatuses'[n] \in {CONNECTED, ERROR}
         /\ sweeps'[k].at > sweeps[k].at

\* C35: on every health sweep each known client whose status is not
\* connected (disconnected, connecting or error) gets a connect attempt and
\* its updated status is recorded, and a failed attempt does not keep the
\* sweep from checking the remaining clients: a sweep goes past a client
\* without a connect attempt only when that client is connected.
C35_SweepReconnectsAllNotConnected ==
  [][ \A k \in DOMAIN sweeps' :
        /\ \A i \in PassedWithoutConnect(k) :
             mcpClient[ServerOrder[i]].status = CONNECTED
        /\ AttemptRecorded(k) ]_vars

\* What the sweep does: it goes past a client that is connected or still
\* connecting, and a settled attempt, failed or not, is recorded and
\* followed by the check of the remaining clients.
C35_SweepSkipsConnecting ==
  [][ \A k \in DOMAIN sweeps' :
        /\ \A i \in PassedWithoutConnect(k) :
             mcpClient[ServerOrder[i]].status \in {CONNECTED, CONNECTING}
        /\ AttemptRecorded(k) ]_vars

\* A sweep has finished and recorded the status `connecting` for alpha, and
\* no sweep has called connect for alpha.
C35_ConnectingSkipped ==
  /\ \E k \in DOMAIN sweeps : sweeps[k].at > Len(ServerOrder)
  /\ "alpha" \in DOMAIN healthStatuses
  /\ healthStatuses["alpha"] = CONNECTING
  /\ \A c \in DOMAIN connects :
       connects[c].server = "alpha" => connects[c].waiter \in {TaskWaiter, Nobody}

\* The attempt of a sweep on alpha failed and the sweep went on to beta.
C35_FailedAttemptGoesOn ==
  \E k \in DOMAIN sweeps : \E c \in DOMAIN connects :
    /\ connects[c].server = "alpha"
    /\ connects[c].waiter = SweepWaiter(k)
    /\ connects[c].state = "settled"
    /\ "alpha" \in DOMAIN healthStatuses
    /\ healthStatuses["alpha"] = ERROR
    /\ sweeps[k].at > 1

(*************************************************************************)
(* Claims about the output of retried attempts, checked under            *)
(* SpecClient.                                                           *)
(*************************************************************************)
RECURSIVE DeliveredText(_)
\* The contents of the TEXT_DELTA events of `events`, concatenated.
DeliveredText(events) ==
  IF Len(events) = 0 THEN ""
  ELSE (IF Head(events).type = "text_delta" THEN Head(events).content ELSE "")
         \o DeliveredText(Tail(events))

\* The text an attempt streams: the text of its answer, or what it had
\* streamed when it failed.
TextOfAttempt(attempt) ==
  IF attempt.t = "failure" THEN attempt.partial ELSE attempt.text

RECURSIVE TextOfAttempts(_, _)
\* The texts of the first n attempts of a script, concatenated.
TextOfAttempts(script, n) ==
  IF n = 0 THEN ""
  ELSE TextOfAttempts(script, n - 1) \o TextOfAttempt(script[n])

\* C36: across the retries of one streaming chatCompletion call the consumer
\* never receives the output of a failed attempt in addition to that of its
\* retry: the TEXT_DELTA events delivered for the call concatenate to the
\* text of a single model response, the one of the last attempt made.
C36_DeltasOfOneResponse ==
  cout # Null /\ cstream =>
    DeliveredText(cout[1].events) = TextOfAttempt(cscript[Len(cout[1].waits) + 1])

\* What the retry loop delivers: the text of every attempt made, failed or
\* not, one after the other.
C36_DeltasOfAllAttempts ==
  cout # Null /\ cstream =>
    DeliveredText(cout[1].events) = TextOfAttempts(cscript, Len(cout[1].waits) + 1)

\* The connection was lost after "o" had been streamed and the retry
\* answered "ok": the consumer received "ook".
C36_PartialThenRetry ==
  /\ cout # Null
  /\ cstream
  /\ cscript[1] = ConnectionError("o")
  /\ cscript[2].t = "answer"
  /\ cscript[2].text = "ok"
  /\ cout[1].waits = <<1>>
  /\ DeliveredText(cout[1].events) = "ook"

(*************************************************************************)
(* Claims about closing the sub-agent, checked under SpecSubagent.       *)
(*************************************************************************)
\* C37: every SubagentTool.execute that created a sub-agent closes it
\* exactly once before it returns, whichever way the run of the sub-agent
\* ended: goal, timeout, AGENT_ERROR, or an exception raised while
\* initializing or running it.
C37_SubagentClosedOnce ==
  /\ subagent.active /\ subagent.created /\ subagent.state = "returned" =>
       subagent.closes = 1
  /\ subagent.active => subagent.closes <= 1

\* What execute does: a sub-agent that was initialized is closed exactly
\* once before execute returns, and one whose initialize failed is not
\* closed.
C37_ClosedOnceIfInitialized ==
  /\ subagent.active /\ subagent.created /\ subagent.state \in {"done", "returned"} =>
       subagent.closes = (IF subagent.initialized THEN 1 ELSE 0)
  /\ subagent.active /\ subagent.state \in {"new", "running"} => subagent.closes = 0

\* execute returned the failure of initialize and never closed the agent.
C37_InitializeFailedNotClosed ==
  /\ subagent.active
  /\ subagent.created
  /\ ~subagent.initialized
  /\ subagent.state = "returned"
  /\ subagent.closes = 0
  /\ subagent.result # Null
  /\ ~subagent.result[1].success

\* The run of the sub-agent was left by an exception of a tool and the
\* sub-agent was closed once.
C37_ThrownRunClosed ==
  /\ subagent.active
  /\ subagent.state = "returned"
  /\ pc = "thrown"
  /\ subagent.closes = 1

\* The sub-agent timed out and was closed once.
C37_TimedOutClosed ==
  /\ subagent.active
  /\ subagent.state = "returned"
  /\ subagent.terminateResponse = "timeout"
  /\ subagent.closes = 1

(*************************************************************************)
(* The interactive session with /reload, checked under SpecReload: the   *)
(* session is initialized, the user sends messages and reloads the tools *)
(* between them; the tool directory is empty.                            *)
(*************************************************************************)
\* The model answers with a text, or it reads a file and says nothing.
ReloadScripts(turn) ==
  { <<Answer("ok", <<>>, Some(UsageOf(5)))>>,
    <<Answer("", <<ToolCall(<<turn, 1>>, "read_file", [path |-> "a.txt"])>>,
             Some(UsageOf(5)))>> }

\* The user sends no further message once the session has made this many
\* LLM turns.
MaxReloadTurns == 2

\* processMessage of a line that is no command, in the initialized session.
SendMessage == phase = "ready" /\ turnCount < MaxReloadTurns /\ Run

NextReload ==
  \/ SessionInitialize
  \/ SendMessage
  \/ LLMTurn(ReloadScripts(turnNum + 1), {NoScript})
  \/ MaxTurnsReached
  \/ AgentEnd
  \/ ToolCallStart
  \/ InvokeToolCall
  \/ MessageDone
  \/ ReloadCommand

SpecReload == InitInteractive /\ [][NextReload]_vars

(*************************************************************************)
(* Claims about /reload, checked under SpecReload.                       *)
(*************************************************************************)
\* C38: Session.reloadTools (the /reload command) keeps the running
\* conversation: the messages and the cumulative totalUsage of the
\* session's context are the same after the reload as before it.
C38_ReloadKeepsConversation ==
  [][ReloadCommand => (messages' = messages /\ totalUsage' = totalUsage)]_vars

\* What the reload does: the session gets a new context manager, with no
\* message and no usage; the turn count and the loop detector's history
\* stay.
C38_ReloadMakesNewContext ==
  [][ReloadCommand =>
       /\ messages' = <<>>
       /\ totalUsage' = ZeroUsage
       /\ latestUsage' = ZeroUsage
       /\ turnCount' = turnCount
       /\ history' = history]_vars

\* After a message was answered and the tools were reloaded, the prompt is
\* shown and the context holds no message and no usage.
C38_ConversationLost ==
  /\ pc = "idle"
  /\ phase = "ready"
  /\ turnCount > 0
  /\ messages = <<>>
  /\ totalUsage = ZeroUsage

(*************************************************************************)
(* Claims about the messages sent to the LLM, checked under SpecRepeat.  *)
(*************************************************************************)
\* A message dictionary carries a content field or a tool_calls list.
CarriesContentOrToolCalls(msg) ==
  "content" \in DOMAIN msg \/ "tool_calls" \in DOMAIN msg

\* C39: every non-system message returned by getMessages() carries a content
\* field or a tool_calls list, so that no assistant or tool message is sent
\* to the LLM with neither, also after a tool that succeeds with empty
\* output and after a turn whose stream produced no text and no tool call.
C39_MessagesCarryContent ==
  /\ \A i \in DOMAIN getMessages(messages) :
       getMessages(messages)[i].role # "system" =>
         CarriesContentOrToolCalls(getMessages(messages)[i])
  /\ \A k \in ChatRequests : \A i \in DOMAIN requests[k].messages :
       requests[k].messages[i].role # "system" =>
         CarriesContentOrToolCalls(requests[k].messages[i])

\* What holds: every assistant message of a turn with tool calls carries
\* the tool_calls list, and every message that carries neither is a message
\* stored with empty content.
C39_BareOnlyWhenEmpty ==
  \A i \in DOMAIN messages :
    /\ Len(messages[i].toolCalls) > 0 => "tool_calls" \in DOMAIN toDict(messages[i])
    /\ ~CarriesContentOrToolCalls(toDict(messages[i])) => messages[i].content = ""

\* `cat x` succeeded with empty output, and the request of the next turn
\* held its tool message as role and tool_call_id only.
C39_BareToolMessageSent ==
  \E k \in ChatRequests : \E i \in DOMAIN requests[k].messages :
    /\ requests[k].messages[i].role = "tool"
    /\ DOMAIN requests[k].messages[i] = {"role", "tool_call_id"}

(*************************************************************************)
(* Claims about the blocked commands of the shell tool, checked under    *)
(* Spec.                                                                 *)
(*************************************************************************)
\* The last invoke handed a shell command to ShellTool.execute.
ShellExecuted ==
  /\ Invoked
  /\ inv.name = "shell"
  /\ "command" \in DOMAIN inv.params
  /\ Count("execute") > 0

\* The result says the command was blocked, and no process was run for it:
\* it carries no exit code.
BlockedResult(result) ==
  /\ ~result.success
  /\ "blocked" \in result.metadata
  /\ "exit_code" \notin result.metadata

\* C40: a shell command that contains any entry of the blocked-command list
\* is never run by the tool: whenever such a command reaches
\* ShellTool.execute, the result is a failure with metadata blocked = true
\* and no child process is started.
C40_BlockedCommandsNeverRun ==
  (ShellExecuted /\ ContainsBlocked(inv.params.command)) =>
    (inv.outcome.t = "result" /\ BlockedResult(inv.outcome.result))

\* What execute does: a command is blocked when, and only when, its
\* lower-cased and trimmed form contains an entry of the list, so an entry
\* with an upper-case letter never matches.
C40_BlockedIffLowerCaseMatch ==
  ShellExecuted =>
    /\ inv.outcome.t = "result"
    /\ BlockedResult(inv.outcome.result)
         <=> ContainsBlocked(trim(toLowerCase(inv.params.command)))
    /\ \A k \in 1..Len(BLOCKED_COMMANDS) :
         (Includes(inv.params.command, BLOCKED_COMMANDS[k])
            /\ toLowerCase(BLOCKED_COMMANDS[k]) = BLOCKED_COMMANDS[k]) =>
           BlockedResult(inv.outcome.result)

\* `chmod -R 777 .`, which contains the entry `chmod -R 777`, was run and
\* exited with 0.
C40_ChmodRan ==
  /\ ShellExecuted
  /\ inv.params.command = "chmod -R 777 ."
  /\ inv.outcome.t = "result"
  /\ inv.outcome.result.success
  /\ "exit_code" \in inv.outcome.result.metadata

\* `rm -rf /` reached execute and was blocked.
C40_RmBlocked ==
  /\ ShellExecuted
  /\ inv.params.command = "rm -rf /"
  /\ BlockedResult(inv.outcome.result)

=============================================================================
